---- MODULE Spec2Model ----
(***************************************************************************)
(* Model of scripts/books/upload-book-image-library.py: the per-book       *)
(* optimize -> size-budget -> upload -> resume-ledger pipeline of main(),  *)
(* with the helpers it calls.  File names and extensions are sequences of  *)
(* one-character strings so that the name sanitizer is computed the way    *)
(* the code computes it.                                                   *)
(***************************************************************************)
EXTENDS Integers, Sequences, FiniteSets, TLC

\* ------------------------------------------------------------------------
\* Characters and strings
\* ------------------------------------------------------------------------

LowerSeq ==
    <<"a","b","c","d","e","f","g","h","i","j","k","l","m",
      "n","o","p","q","r","s","t","u","v","w","x","y","z">>

UpperSeq ==
    <<"A","B","C","D","E","F","G","H","I","J","K","L","M",
      "N","O","P","Q","R","S","T","U","V","W","X","Y","Z">>

DigitSeq ==
    <<"0","1","2","3","4","5","6","7","8","9">>

HexSeq ==
    <<"0","1","2","3","4","5","6","7","8","9","a","b","c","d","e","f">>

Range(s) ==
    { s[k] : k \in DOMAIN s }

\* the class [A-Za-z0-9._-] of safe_storage_filename
SafeChars ==
    Range(LowerSeq) \cup Range(UpperSeq) \cup Range(DigitSeq) \cup {".", "_", "-"}

\* characters removed by str.strip() without argument
Whitespace ==
    {" "}

IndexIn(s, c) ==
    CHOOSE k \in DOMAIN s : s[k] = c

\* str.lower() on one character
LowerChar(c) ==
    IF c \in Range(UpperSeq) THEN LowerSeq[IndexIn(UpperSeq, c)] ELSE c

\* str.lower()
Lower(s) ==
    [k \in DOMAIN s |-> LowerChar(s[k])]

RECURSIVE LStrip(_, _)
\* str.lstrip(chars)
LStrip(s, chars) ==
    IF s # <<>> /\ Head(s) \in chars THEN LStrip(Tail(s), chars) ELSE s

RECURSIVE RStrip(_, _)
\* str.rstrip(chars)
RStrip(s, chars) ==
    IF s # <<>> /\ s[Len(s)] \in chars
    THEN RStrip(SubSeq(s, 1, Len(s) - 1), chars)
    ELSE s

\* str.strip(chars)
Strip(s, chars) ==
    RStrip(LStrip(s, chars), chars)

RECURSIVE SubRuns(_, _, _)
\* re.sub(r"[<bad>]+", "_", s): every maximal run of characters of `bad`
\* becomes one "_"; inRun tells whether the previous character was in a run
SubRuns(s, bad, inRun) ==
    IF s = <<>> THEN <<>>
    ELSE IF Head(s) \in bad
         THEN (IF inRun THEN <<>> ELSE <<"_">>) \o SubRuns(Tail(s), bad, TRUE)
         ELSE <<Head(s)>> \o SubRuns(Tail(s), bad, FALSE)

\* str.rfind(c), 1-based, 0 when absent
RFind(s, c) ==
    IF \E k \in DOMAIN s : s[k] = c
    THEN CHOOSE k \in DOMAIN s : s[k] = c /\ \A m \in DOMAIN s : s[m] = c => m <= k
    ELSE 0

\* os.path.splitext (genericpath._splitext with sep "/"): the extension
\* starts at the last dot of the last path component, unless that component
\* consists of leading dots only up to there
SplitExt(p) ==
    LET sepIndex == RFind(p, "/")
        dotIndex == RFind(p, ".")
    IN  IF dotIndex > sepIndex
           /\ \E k \in (sepIndex + 1)..(dotIndex - 1) : p[k] # "."
        THEN [base |-> SubSeq(p, 1, dotIndex - 1), ext |-> SubSeq(p, dotIndex, Len(p))]
        ELSE [base |-> p, ext |-> <<>>]

\* pathlib PurePath.suffix of a file name, then .lower().lstrip(".")
\* (src lines 213, 539)
PathExt(name) ==
    LET k == RFind(name, ".")
    IN  IF 0 < k - 1 /\ k < Len(name)
        THEN LStrip(Lower(SubSeq(name, k, Len(name))), {"."})
        ELSE <<>>

RECURSIVE DecStr(_)
\* str(n) for n >= 0
DecStr(n) ==
    IF n < 10 THEN <<DigitSeq[n + 1]>>
    ELSE DecStr(n \div 10) \o <<DigitSeq[(n % 10) + 1]>>

Max(a, b) ==
    IF a >= b THEN a ELSE b

\* position of a character in the model's alphabet (its code point stand-in)
CharCode(c) ==
    IF c \in Range(LowerSeq) THEN IndexIn(LowerSeq, c)
    ELSE IF c \in Range(UpperSeq) THEN 26 + IndexIn(UpperSeq, c)
    ELSE IF c \in Range(DigitSeq) THEN 52 + IndexIn(DigitSeq, c)
    ELSE IF c = "." THEN 63
    ELSE IF c = "_" THEN 64
    ELSE IF c = "-" THEN 65
    ELSE IF c = " " THEN 66
    ELSE IF c = "/" THEN 67
    ELSE 68

RECURSIVE WeightedSumRange(_, _, _, _)
\* the sum of CharCode(s[k]) * (k + j) over k in lo..hi, by halving
WeightedSumRange(s, lo, hi, j) ==
    IF lo > hi THEN 0
    ELSE IF lo = hi THEN CharCode(s[lo]) * (lo + j)
    ELSE LET mid == (lo + hi) \div 2
         IN  WeightedSumRange(s, lo, mid, j) + WeightedSumRange(s, mid + 1, hi, j)

WeightedSum(s, k, j) ==
    WeightedSumRange(s, k, Len(s), j)

\* hashlib.sha1(raw).hexdigest()[:10]: ten hex digits that depend on every
\* character of raw and on its length (a deterministic stand-in digest)
Sha1Hex10(raw) ==
    [j \in 1..10 |-> HexSeq[((WeightedSum(raw, 1, j) + Len(raw) * j) % 16) + 1]]

S_file ==
    <<"f","i","l","e">>

\* the default max_len of safe_storage_filename
DefaultMaxLen ==
    180

safe_storage_filename(name, max_len) ==
    LET stripped == Strip(name, Whitespace)
        raw      == IF stripped = <<>> THEN S_file ELSE stripped
        parts    == SplitExt(raw)
        ext      == Lower(parts.ext)
        sub1     == SubRuns(parts.base, Range(parts.base) \ SafeChars, FALSE)
        sub2     == Strip(SubRuns(sub1, {"_"}, FALSE), {".", "_", "-"})
        safe_base == IF sub2 = <<>> THEN S_file ELSE sub2
        max_base == Max(16, max_len - Len(ext))
        h        == Sha1Hex10(raw)
        keep     == Max(8, max_base - (Len(h) + 1))
        capped   == IF Len(safe_base) > max_base
                    THEN SubSeq(safe_base, 1, keep) \o <<"_">> \o h
                    ELSE safe_base
    IN  capped \o ext

\* ------------------------------------------------------------------------
\* Extensions, mime types, conversion policy
\* ------------------------------------------------------------------------

S_jpg == <<"j","p","g">>
S_jpeg == <<"j","p","e","g">>
S_png == <<"p","n","g">>
S_webp == <<"w","e","b","p">>
S_gif == <<"g","i","f">>
S_svg == <<"s","v","g">>
S_tif == <<"t","i","f">>
S_tiff == <<"t","i","f","f">>
S_psd == <<"p","s","d">>

SUPPORTED_PRESERVE_EXTS ==
    {S_jpg, S_jpeg, S_png, S_webp, S_gif, S_svg}

CONVERT_FROM_EXTS ==
    {S_tif, S_tiff, S_psd}

mime_for_ext(ext) ==
    LET e == LStrip(Lower(ext), {"."})
    IN  IF e \in {S_jpg, S_jpeg} THEN "image/jpeg"
        ELSE IF e = S_png THEN "image/png"
        ELSE IF e = S_webp THEN "image/webp"
        ELSE IF e = S_gif THEN "image/gif"
        ELSE IF e = S_svg THEN "image/svg+xml"
        ELSE IF e \in {S_tif, S_tiff} THEN "image/tiff"
        ELSE IF e = S_psd THEN "image/vnd.adobe.photoshop"
        ELSE "application/octet-stream"

\* 1024 * 1024 bytes
MiB ==
    1048576

\* path.stat().st_size / (1024 * 1024) > max_upload_mb, on integers
should_convert(file, max_upload_mb) ==
    IF PathExt(file.name) \in CONVERT_FROM_EXTS THEN TRUE
    ELSE file.size > max_upload_mb * MiB

\* do_convert without the test of the extension against the preserve set
do_convert_NoExtensionRule(file, c) ==
    \/ c.convert_all
    \/ file.size > c.max_upload_mb * MiB

\* do_convert of main(): the convert-all flag, should_convert, or an
\* extension outside the preserve set
do_convert(file, c) ==
    \/ c.convert_all
    \/ should_convert(file, c.max_upload_mb)
    \/ PathExt(file.name) \notin SUPPORTED_PRESERVE_EXTS

\* ext == "svg" and not do_convert, or not do_convert: the file is uploaded
\* as read from disk; otherwise it goes through the adaptive loop
TakesConversionPath(file, c) ==
    IF PathExt(file.name) = S_svg /\ ~do_convert(file, c)
    THEN FALSE
    ELSE do_convert(file, c)

\* ------------------------------------------------------------------------
\* Byte buffers, digests, optimizer results
\* ------------------------------------------------------------------------

NoBytes ==
    [kind |-> "none", src |-> <<>>, px |-> 0, q |-> 0, len |-> 0]

\* path.read_bytes(): the file's own bytes
read_bytes(file) ==
    [kind |-> "raw", src |-> file.name, px |-> 0, q |-> 0, len |-> file.size]

\* identical bytes give identical digests, different bytes different ones
sha256_bytes(b) ==
    <<"sha256", b>>

NoOpt ==
    [present |-> FALSE, output_bytes |-> NoBytes, output_ext |-> <<>>,
     width |-> 0, height |-> 0, mode |-> "none"]

Min(a, b) ==
    IF a <= b THEN a ELSE b

\* the encode step without the flatten branch: alpha always gives PNG
optimize_image_AlphaAlwaysPng(file, max_px, jpeg_quality, alpha_mode, outLen) ==
    LET side == IF file.side <= max_px THEN file.side ELSE max_px
        bytes == [kind |-> "opt", src |-> file.name, px |-> max_px,
                  q |-> jpeg_quality, len |-> outLen]
    IN  IF file.has_alpha
        THEN [present |-> TRUE, output_bytes |-> bytes, output_ext |-> S_png,
              width |-> side, height |-> side, mode |-> "RGBA"]
        ELSE [present |-> TRUE, output_bytes |-> bytes, output_ext |-> S_jpg,
              width |-> side, height |-> side, mode |-> "RGB"]

\* optimize_image when the decode succeeds: the format table of the encode
\* step and the downscale of a square image of side file.side; the encoded
\* length outLen is what the encoder produced
optimize_image(file, max_px, jpeg_quality, alpha_mode, outLen) ==
    LET side == Min(file.side, max_px)
        bytes == [kind |-> "opt", src |-> file.name, px |-> max_px,
                  q |-> jpeg_quality, len |-> outLen]
    IN  IF file.has_alpha
        THEN IF alpha_mode = "flatten-white-jpeg"
             THEN [present |-> TRUE, output_bytes |-> bytes, output_ext |-> S_jpg,
                   width |-> side, height |-> side, mode |-> "RGB"]
             ELSE [present |-> TRUE, output_bytes |-> bytes, output_ext |-> S_png,
                   width |-> side, height |-> side, mode |-> "RGBA"]
        ELSE [present |-> TRUE, output_bytes |-> bytes, output_ext |-> S_jpg,
              width |-> side, height |-> side, mode |-> "RGB"]

\* ------------------------------------------------------------------------
\* Object names, paths, manifest entries
\* ------------------------------------------------------------------------

\* object_name before the uniqueness step: the sanitized original name for a
\* preserved file, the sanitized "<name>.<output_ext>" for a converted file
\* whose format changed
CandidateName(file, converted, output_ext) ==
    IF converted /\ output_ext # PathExt(file.name)
    THEN safe_storage_filename(file.name \o <<".">> \o output_ext, DefaultMaxLen)
    ELSE safe_storage_filename(file.name, DefaultMaxLen)

\* the used_names step: a name seen before gets "__dup<count>" before its
\* extension; only the candidate name is counted
UniqueName(used, candidate) ==
    IF candidate \in DOMAIN used
    THEN LET parts == SplitExt(candidate)
         IN  safe_storage_filename(
                 parts.base \o <<"_","_","d","u","p">> \o DecStr(used[candidate] + 1)
                            \o parts.ext,
                 DefaultMaxLen)
    ELSE candidate

UsedAfter(used, candidate) ==
    IF candidate \in DOMAIN used
    THEN [used EXCEPT ![candidate] = @ + 1]
    ELSE [n \in DOMAIN used \cup {candidate} |->
            IF n = candidate THEN 0 ELSE used[n]]

BookSlug ==
    "book"

\* f"{args.prefix}/{book_slug}/images/{object_name}", kept as its components
ObjectPath(prefix, object_name) ==
    <<prefix, BookSlug, "images", object_name>>

\* f"{args.prefix}/{book_slug}/images-index.json"
IndexPath(prefix) ==
    <<prefix, BookSlug, "images-index.json">>

\* the entry dict with digest and length taken from the source file
MakeEntry_DigestOfSource(file, object_name, object_path, body, output_ext, content_type, opt) ==
    [originalName  |-> file.name,
     storedName    |-> object_name,
     storagePath   |-> object_path,
     originalBytes |-> file.size,
     storedBytes   |-> file.size,
     storedExt     |-> output_ext,
     storedMime    |-> content_type,
     storedSha256  |-> sha256_bytes(read_bytes(file)),
     width         |-> IF opt.width # 0 /\ opt.height # 0 THEN opt.width ELSE 0,
     height        |-> IF opt.width # 0 /\ opt.height # 0 THEN opt.height ELSE 0,
     mode          |-> opt.mode]

\* the entry dict of main(); width, height and mode are 0 / "none" when the
\* keys are not set
\* an entry whose storagePath is built from the original name
MakeEntry_PathFromOriginalName(file, object_name, object_path, body, output_ext, content_type, opt) ==
    [originalName  |-> file.name,
     storedName    |-> object_name,
     storagePath   |-> <<object_path[1], object_path[2], object_path[3], file.name>>,
     originalBytes |-> file.size,
     storedBytes   |-> body.len,
     storedExt     |-> output_ext,
     storedMime    |-> content_type,
     storedSha256  |-> sha256_bytes(body),
     width         |-> IF opt.width # 0 /\ opt.height # 0 THEN opt.width ELSE 0,
     height        |-> IF opt.width # 0 /\ opt.height # 0 THEN opt.height ELSE 0,
     mode          |-> opt.mode]

MakeEntry(file, object_name, object_path, body, output_ext, content_type, opt) ==
    [originalName  |-> file.name,
     storedName    |-> object_name,
     storagePath   |-> object_path,
     originalBytes |-> file.size,
     storedBytes   |-> body.len,
     storedExt     |-> output_ext,
     storedMime    |-> content_type,
     storedSha256  |-> sha256_bytes(body),
     width         |-> IF opt.width # 0 /\ opt.height # 0 THEN opt.width ELSE 0,
     height        |-> IF opt.width # 0 /\ opt.height # 0 THEN opt.height ELSE 0,
     mode          |-> opt.mode]

\* a ledger value that is not a dict, or whose storagePath is not a string
JunkEntry(name) ==
    [originalName  |-> name,
     storedName    |-> <<>>,
     storagePath   |-> <<>>,
     originalBytes |-> 0,
     storedBytes   |-> 0,
     storedExt     |-> <<>>,
     storedMime    |-> "none",
     storedSha256  |-> sha256_bytes(NoBytes),
     width         |-> 0,
     height        |-> 0,
     mode          |-> "none"]

\* isinstance(entry, dict) and isinstance(entry.get("storagePath"), str)
IsValidEntry(entry) ==
    entry.storagePath # <<>>

\* ------------------------------------------------------------------------
\* Inputs: the book's image directory, the configuration, the state file
\* ------------------------------------------------------------------------

\* the largest number of files in the book's images directory
MaxFiles ==
    2

\* the largest number of runs of the script over the book
MaxRuns ==
    2

\* the largest value of --retries
MaxRetries ==
    1

\* the smaller of the two values of --max-upload-mb
MaxUploadMb ==
    1

\* the values of --max-px and --jpeg-quality: at the floors of the adaptive
\* loop
MaxPxArg ==
    800

JpegQualityArg ==
    65

\* a file size at the smaller ceiling and one just above it (within the
\* larger ceiling)
SmallSize ==
    MaxUploadMb * MiB

BigSize ==
    MaxUploadMb * MiB + 1

\* the files a book directory can hold: two names that sanitize to the same
\* string, a vector file over the smaller ceiling and under the larger one, a
\* must-convert file under the ceiling, and a file under the ceiling whose
\* extension is in neither set
FilePool ==
    { [name |-> <<"a"," ","b",".","p","n","g">>, size |-> SmallSize,
       has_alpha |-> TRUE, side |-> 4000],
      [name |-> <<"a","_","b",".","p","n","g">>, size |-> SmallSize,
       has_alpha |-> TRUE, side |-> 500],
      [name |-> <<"e",".","s","v","g">>, size |-> BigSize,
       has_alpha |-> FALSE, side |-> 500],
      [name |-> <<"d",".","T","I","F">>, size |-> SmallSize,
       has_alpha |-> FALSE, side |-> 4000],
      [name |-> <<"f",".","b","m","p">>, size |-> SmallSize,
       has_alpha |-> FALSE, side |-> 500] }

\* images_dir.iterdir(): every listing of at most MaxFiles distinct files,
\* in any order
FileLists ==
    { fl \in UNION { [1..n -> FilePool] : n \in 0..MaxFiles } :
        \A a, b \in DOMAIN fl : a # b => fl[a] # fl[b] }

AlphaModes ==
    {"png"}

\* --prefix: the default and another one
Prefixes ==
    {"library", "archive"}

\* the parsed command line (args) as far as the book loop reads it; --no-resume
\* is left out next to --dry-run, which disables resume by itself (line 511);
\* the other prefix is given to runs that resume, the only ones that read
\* what a run with another prefix left
Configs ==
    { c \in [dry_run : BOOLEAN, no_resume : BOOLEAN, upsert : BOOLEAN,
             convert_all : BOOLEAN, alpha_mode : AlphaModes, prefix : Prefixes,
             retries : {MaxRetries},
             max_upload_mb : {MaxUploadMb, MaxUploadMb + 1},
             max_px : {MaxPxArg}, jpeg_quality : {JpegQualityArg}] :
        /\ c.dry_run => ~c.no_resume
        /\ c.prefix # "library" => (~c.no_resume /\ ~c.dry_run) }

NoConfig ==
    [dry_run |-> FALSE, no_resume |-> FALSE, upsert |-> FALSE,
     convert_all |-> FALSE, alpha_mode |-> "png", prefix |-> "library",
     retries |-> 0, max_upload_mb |-> MaxUploadMb,
     max_px |-> MaxPxArg, jpeg_quality |-> JpegQualityArg]

\* resume_enabled = not args.no_resume and not args.dry_run
resume_enabled(c) ==
    ~c.no_resume /\ ~c.dry_run

\* max_bytes = int(args.max_upload_mb * 1024 * 1024)
max_bytes(c) ==
    c.max_upload_mb * MiB

EmptyMap ==
    [x \in {} |-> x]

Put(m, k, v) ==
    [x \in DOMAIN m \cup {k} |-> IF x = k THEN v ELSE m[x]]

\* contents of a file on disk: absent, text that is not JSON, JSON that is
\* not an object, a JSON object whose uploadedByOriginal is not a mapping, a
\* JSON object with the mapping ubo, or a partially written text of a document
AbsentFile ==
    [kind |-> "absent", ubo |-> EmptyMap]

LedgerDoc(ubo) ==
    [kind |-> "object", ubo |-> ubo]

\* the text of a document cut off before its end
PartialOf(doc) ==
    [kind |-> "partial", ubo |-> doc.ubo]

\* the largest book that starts with a damaged state file
MaxFilesDamaged ==
    1

\* what the state file of the book can hold before the first run: nothing,
\* or (for books of at most MaxFilesDamaged files) damaged content, or a
\* mapping with a value that is no entry
InitialLedgers(fl) ==
    { AbsentFile }
    \cup { [kind |-> k, ubo |-> EmptyMap] :
             k \in IF Len(fl) <= MaxFilesDamaged
                   THEN {"unparsable", "nonobject", "object_badmap"}
                   ELSE {} }
    \cup { LedgerDoc(Put(EmptyMap, fl[k].name, JunkEntry(fl[k].name))) :
             k \in IF Len(fl) <= MaxFilesDamaged THEN {1} \cap DOMAIN fl ELSE {} }

\* lines 512-518: state = {} unless resume is enabled and the file exists;
\* json.loads failures give {}; state.get on a parsed value that is not a
\* dict raises AttributeError outside the try; a non-dict uploadedByOriginal
\* gives {}
LoadLedger(ledger, resume) ==
    IF ~resume \/ ledger.kind = "absent" THEN [aborts |-> FALSE, ubo |-> EmptyMap]
    ELSE IF ledger.kind \in {"unparsable", "partial"} THEN [aborts |-> FALSE, ubo |-> EmptyMap]
    ELSE IF ledger.kind = "nonobject" THEN [aborts |-> TRUE, ubo |-> EmptyMap]
    ELSE IF ledger.kind = "object_badmap" THEN [aborts |-> FALSE, ubo |-> EmptyMap]
    ELSE [aborts |-> FALSE, ubo |-> ledger.ubo]

\* the text written straight to the final path
write_text_partial_InPlace(d, doc) ==
    [d EXCEPT !.ledger = PartialOf(doc)]

\* write_json_atomic, step by step: tmp.write_text truncates and writes the
\* text (a crash can leave it cut off), then tmp.replace(path)
write_text_partial(d, doc) ==
    [d EXCEPT !.tmp = PartialOf(doc)]

write_text_done(d, doc) ==
    [d EXCEPT !.tmp = doc]

replace(d) ==
    [ledger |-> d.tmp, tmp |-> AbsentFile]

\* the index dict of main(), without generatedAt
NewIndex(c) ==
    [bookSlug |-> BookSlug, maxPx |-> c.max_px, jpegQuality |-> c.jpeg_quality,
     alphaMode |-> c.alpha_mode, entries |-> <<>>, srcMap |-> EmptyMap]

\* the remote store accepts a write to a free path, and to a taken path only
\* with x-upsert: true
RemoteAccepts(objects, path, upsert) ==
    upsert \/ path \notin DOMAIN objects

\* lines 589-590 and 594-595: the shrink step of the adaptive loop
ShrinkPx(cur_px) ==
    Max(800, (cur_px * 85) \div 100)

ShrinkQ(cur_q) ==
    Max(65, cur_q - 4)

\* for _ in range(8)
LoopAttempts ==
    8

NoLoop ==
    [n |-> 0, cur_px |-> 0, cur_q |-> 0, opt |-> NoOpt, last_err |-> "none"]

\* the loop stopping at the first attempt that did not fit
LoopEnds_FirstAttempt(brk, n) ==
    TRUE

\* for _ in range(8) with the break of line 587: attempt n + 1 is the last
\* one when it breaks or when it was the eighth
LoopEnds(brk, n) ==
    brk \/ n + 1 = LoopAttempts

\* the exceptions optimize_image raises for a file, by the object caught in
\* last_err: "error" is a decode or encode error of Pillow; the fallback for
\* tif and tiff raises RuntimeError("Unsupported TIFF shape") or, without
\* tifffile, zarr and numpy, RuntimeError("BLOCKED: TIFF streaming fallback
\* requires python packages ...")
ErrorsOf(file) ==
    IF PathExt(file.name) \in {S_tif, S_tiff}
    THEN {"error", "UnsupportedTiffShape", "StreamingUnavailable"}
    ELSE {"error"}

\* type(last_err).__name__
TypeName(last_err) ==
    CASE last_err = "none" -> "unknown"
      [] last_err = "error" -> "OSError"
      [] OTHER -> "RuntimeError"

NoError ==
    [text |-> "none", detail |-> "none"]

\* lines 597-603: the RuntimeError raised after the loop
SurfacedError(verdict, last_err) ==
    CASE verdict = "failed_to_convert" ->
           [text |-> "Failed to convert image", detail |-> TypeName(last_err)]
      [] verdict = "still_too_large" ->
           [text |-> "BLOCKED: Optimized image is still too large", detail |-> "none"]
      [] OTHER -> NoError

\* the check after the loop without the comparison against the ceiling
LoopVerdict_NoCeilingCheck(opt, maxBytes) ==
    IF ~opt.present THEN "failed_to_convert" ELSE "ok"

\* lines 597-603: what follows the loop
LoopVerdict(opt, maxBytes) ==
    IF ~opt.present THEN "failed_to_convert"
    ELSE IF opt.output_bytes.len > maxBytes THEN "still_too_large"
    ELSE "ok"

NoCur ==
    [entry |-> JunkEntry(<<>>), body |-> NoBytes, content_type |-> "none",
     object_path |-> <<>>, converted |-> FALSE]

\* ------------------------------------------------------------------------
\* State
\* ------------------------------------------------------------------------

VARIABLES
    files,                 \* the listing of the book's images directory
    disk,                  \* [ledger, tmp]: the state file and its .tmp sibling
    remote,                \* [assets, index]: object path -> stored content
    run,                   \* number of runs started
    cfg,                   \* args of the current run
    pc,                    \* where the current run is
    i,                     \* 1-based position in files (0 before the loop)
    uploaded_by_original,  \* the in-memory ledger mapping
    index,                 \* the manifest being built
    used_names,            \* candidate name -> collision count
    loop,                  \* the adaptive loop: attempts made, cur_px, cur_q, opt, last_err
    cur,                   \* entry, body, content type and path of the file being uploaded
    attempt,               \* the retry counter of storage_upload_with_retries
    hist,                  \* observations of the run (not program state)
    call                   \* a helper function or component run on its own: arguments, position, result

vars ==
    <<files, disk, remote, run, cfg, pc, i, uploaded_by_original, index,
      used_names, loop, cur, attempt, hist, call>>

\* no helper function is being called on its own
NoCall ==
    [fn |-> "none"]

NoPrev ==
    [outcome |-> "none", cfg |-> NoConfig, manifest |-> NewIndex(NoConfig)]

\* transport: which kinds of object the upload transport was called for in
\* this run; okUploads: every <<path, digest>> a transport call stored;
\* okAssets / writes: successful asset uploads and ledger replacements of this
\* run; okIndex: successful index uploads of this run; indexRefused: the store
\* refused an index upload because the object exists;
\* fullAtStart: the book has files and the loaded ledger had a valid entry for
\* every one of them; crashedAt: whether the run crashed right after an asset upload
\* succeeded ("after_upload") or elsewhere; prev: outcome, configuration and
\* manifest of the run before this one, when it completed or crashed right
\* after an upload
NewHist(h, prev, full) ==
    [transport |-> {}, okUploads |-> h.okUploads, okAssets |-> 0, writes |-> 0,
     okIndex |-> 0, indexRefused |-> FALSE, fullAtStart |-> full,
     crashedAt |-> "none", prev |-> prev, error |-> NoError]

Init ==
    /\ files \in FileLists
    /\ disk \in { [ledger |-> l, tmp |-> AbsentFile] : l \in InitialLedgers(files) }
    /\ remote = [assets |-> EmptyMap, index |-> EmptyMap]
    /\ run = 0
    /\ cfg = NoConfig
    /\ pc = "idle"
    /\ i = 0
    /\ uploaded_by_original = EmptyMap
    /\ index = NewIndex(NoConfig)
    /\ used_names = EmptyMap
    /\ loop = NoLoop
    /\ cur = NoCur
    /\ attempt = 0
    /\ hist = [transport |-> {}, okUploads |-> {}, okAssets |-> 0, writes |-> 0,
               okIndex |-> 0, indexRefused |-> FALSE,
               fullAtStart |-> FALSE, crashedAt |-> "none", prev |-> NoPrev,
               error |-> NoError]
    /\ call = NoCall

Running ==
    pc \in {"file", "convert", "upload", "persist", "persist_tmp",
            "persist_replace", "index"}

\* the index upload entered without the dry-run test
PosAfter_IndexInDryRun(j, c) ==
    IF j <= Len(files) THEN "file" ELSE "index"

\* where the run goes once position j of the file loop is reached under c
\* (lines 537 and 686-691)
PosAfter(j, c) ==
    IF j <= Len(files) THEN "file"
    ELSE IF c.dry_run THEN "done"
    ELSE "index"

\* a resume-skip test that never skips
SkipsFile_Never(c, ubo, file) ==
    FALSE

\* lines 541-548: the resume-skip test for the file at position i
SkipsFile(c, ubo, file) ==
    /\ resume_enabled(c)
    /\ file.name \in DOMAIN ubo
    /\ IsValidEntry(ubo[file.name])

\* ------------------------------------------------------------------------
\* Actions
\* ------------------------------------------------------------------------

\* a run starts (lines 503-535): the ledger is loaded once, the manifest and
\* used_names start empty
StartRun ==
    /\ pc \in {"idle", "done", "failed", "crashed"}
    /\ run < MaxRuns
    /\ \E c \in Configs :
        /\ run = 0 => c.prefix = "library"
        /\ run > 0 => /\ c.upsert = cfg.upsert
                      /\ c.convert_all = cfg.convert_all
                      /\ c.max_upload_mb <= cfg.max_upload_mb
        /\ LET load == LoadLedger(disk.ledger, resume_enabled(c))
               full == /\ ~load.aborts
                       /\ resume_enabled(c)
                       /\ Len(files) > 0
                       /\ \A k \in DOMAIN files :
                             /\ files[k].name \in DOMAIN load.ubo
                             /\ IsValidEntry(load.ubo[files[k].name])
               prev == IF pc = "done"
                       THEN [outcome |-> "done", cfg |-> cfg, manifest |-> index]
                       ELSE IF pc = "crashed" /\ hist.crashedAt = "after_upload"
                       THEN [outcome |-> "crashed_after_upload", cfg |-> cfg,
                             manifest |-> NewIndex(NoConfig)]
                       ELSE NoPrev
           IN  /\ cfg' = c
               /\ uploaded_by_original' = load.ubo
               /\ pc' = IF load.aborts THEN "failed" ELSE PosAfter(1, c)
               /\ i' = IF load.aborts THEN 0 ELSE 1
               /\ index' = NewIndex(c)
               /\ hist' = NewHist(hist, prev, full)
    /\ run' = run + 1
    /\ used_names' = EmptyMap
    /\ loop' = NoLoop
    /\ cur' = NoCur
    /\ attempt' = 0
    /\ UNCHANGED <<call, files, disk, remote>>

\* lines 541-548: the ledger entry is taken over, the file is not processed
ResumeSkip ==
    /\ pc = "file"
    /\ SkipsFile(cfg, uploaded_by_original, files[i])
    /\ LET entry == uploaded_by_original[files[i].name]
       IN  index' = [index EXCEPT !.entries = Append(@, entry),
                                  !.srcMap = Put(@, files[i].name, entry.storagePath)]
    /\ i' = i + 1
    /\ pc' = PosAfter(i + 1, cfg)
    /\ UNCHANGED <<call, files, disk, remote, run, cfg, uploaded_by_original,
                   used_names, loop, cur, attempt, hist>>

\* lines 605-651: name, path and entry of the current file; the entry joins
\* the manifest; a dry run then goes on to the next file
FinishFile(file, body, output_ext, content_type, opt, converted) ==
    LET candidate   == CandidateName(file, converted, output_ext)
        object_name == UniqueName(used_names, candidate)
        object_path == ObjectPath(cfg.prefix, object_name)
        entry       == MakeEntry(file, object_name, object_path, body,
                                 output_ext, content_type, opt)
    IN  /\ used_names' = UsedAfter(used_names, candidate)
        /\ index' = [index EXCEPT !.entries = Append(@, entry),
                                  !.srcMap = Put(@, file.name, object_path)]
        /\ attempt' = 0
        /\ IF cfg.dry_run
           THEN /\ i' = i + 1
                /\ pc' = PosAfter(i + 1, cfg)
                /\ cur' = NoCur
           ELSE /\ i' = i
                /\ pc' = "upload"
                /\ cur' = [entry |-> entry, body |-> body,
                           content_type |-> content_type,
                           object_path |-> object_path, converted |-> converted]

\* lines 570-574 and 612-616: the file is kept as read from disk
PreserveFile ==
    /\ pc = "file"
    /\ ~SkipsFile(cfg, uploaded_by_original, files[i])
    /\ ~TakesConversionPath(files[i], cfg)
    /\ LET ext == PathExt(files[i].name)
       IN  FinishFile(files[i], read_bytes(files[i]), ext,
                      IF ext = S_svg THEN "image/svg+xml" ELSE mime_for_ext(ext),
                      NoOpt, FALSE)
    /\ loop' = NoLoop
    /\ UNCHANGED <<call, files, disk, remote, run, cfg, uploaded_by_original, hist>>

\* lines 576-582: the file takes the conversion path, the loop starts
BeginConvert ==
    /\ pc = "file"
    /\ ~SkipsFile(cfg, uploaded_by_original, files[i])
    /\ TakesConversionPath(files[i], cfg)
    /\ loop' = [n |-> 0, cur_px |-> cfg.max_px, cur_q |-> cfg.jpeg_quality,
                opt |-> NoOpt, last_err |-> "none"]
    /\ pc' = "convert"
    /\ UNCHANGED <<call, files, disk, remote, run, cfg, i, uploaded_by_original,
                   index, used_names, cur, attempt, hist>>

\* lines 583-611: one pass of the adaptive loop.  optimize_image returns an
\* output within the ceiling ("fit"), one over it ("over"), or raises
\* ("exc"); after the last pass the code after the loop runs
OptimizeAttempt ==
    /\ pc = "convert"
    /\ loop.n < LoopAttempts
    /\ \E outcome \in {"fit", "over"} \cup ErrorsOf(files[i]) :
        \* the packages of the fallback are there for every attempt of a run
        \* or for none
        /\ (outcome = "StreamingUnavailable") =
              (IF loop.n = 0 THEN outcome = "StreamingUnavailable"
               ELSE loop.last_err = "StreamingUnavailable")
        /\ LET raised == outcome \notin {"fit", "over"}
               outLen == IF outcome = "fit" THEN max_bytes(cfg) ELSE max_bytes(cfg) + 1
               opt2 == IF raised THEN loop.opt
                       ELSE optimize_image(files[i], loop.cur_px, loop.cur_q,
                                           cfg.alpha_mode, outLen)
               brk == ~raised /\ opt2.output_bytes.len <= max_bytes(cfg)
               ends == LoopEnds(brk, loop.n)
               verdict == LoopVerdict(opt2, max_bytes(cfg))
               after == [n |-> loop.n + 1,
                         cur_px |-> IF brk THEN loop.cur_px ELSE ShrinkPx(loop.cur_px),
                         cur_q |-> IF brk THEN loop.cur_q ELSE ShrinkQ(loop.cur_q),
                         opt |-> opt2,
                         last_err |-> IF raised THEN outcome ELSE loop.last_err]
           IN  /\ loop' = IF ends /\ verdict = "ok" THEN NoLoop ELSE after
               /\ IF ~ends
                  THEN UNCHANGED <<pc, i, index, used_names, cur, attempt, hist>>
                  ELSE IF verdict # "ok"
                       THEN /\ pc' = "failed"
                            /\ hist' = [hist EXCEPT !.error =
                                           SurfacedError(verdict, after.last_err)]
                            /\ UNCHANGED <<i, index, used_names, cur, attempt>>
                       ELSE /\ FinishFile(files[i], opt2.output_bytes, opt2.output_ext,
                                          mime_for_ext(opt2.output_ext), opt2, TRUE)
                            /\ UNCHANGED hist
    /\ UNCHANGED <<call, files, disk, remote, run, cfg, uploaded_by_original>>

\* the retry test passing one failure early
ExhaustedRetries_OneEarly(n, retries) ==
    n >= retries

\* lines 436-438: attempt += 1; if attempt > retries: raise (n is the
\* incremented counter)
ExhaustedRetries(n, retries) ==
    n > retries

\* the except block of the asset upload going on with the next file
AfterUploadError_NextFile(j, c) ==
    PosAfter(j + 1, c)

\* lines 667-671: the except block of the asset upload ends the process with
\* sys.exit(1)
AfterUploadError(j, c) ==
    "failed"

\* the index uploaded with the --upsert option
IndexUpsert_FromArgs(c) ==
    c.upsert

\* line 699: the index upload passes upsert=True
IndexUpsert(c) ==
    TRUE

\* the ledger block reached whether or not the upload raised
\* the ledger block entered whether resume is enabled or not
ReachesPersist_IgnoringMode(success, c) ==
    success

ReachesPersist_IgnoringFailure(success, c) ==
    resume_enabled(c)

\* the ledger rebuilt from the new entry alone
LedgerAfter_OnlyNewEntry(ubo, name, entry) ==
    Put(EmptyMap, name, entry)

\* lines 653-673: the ledger block is reached when storage_upload_with_retries
\* returned (no exception) and resume is enabled
ReachesPersist(success, c) ==
    success /\ resume_enabled(c)

\* line 675: uploaded_by_original[original_name] = entry
LedgerAfter(ubo, name, entry) ==
    Put(ubo, name, entry)

\* lines 386-444 and 653-681: one call of storage_upload for the asset, made
\* by storage_upload_with_retries.  A failure (an exception or a status >=
\* 400) is retried until attempt > retries, then main() exits with status 1;
\* after a success the in-memory ledger takes the entry when resume is enabled
UploadAsset ==
    /\ pc = "upload"
    /\ \E ok \in BOOLEAN :
        LET accepted == RemoteAccepts(remote.assets, cur.object_path, cfg.upsert)
            success == ok /\ accepted
        IN  /\ hist' = [hist EXCEPT
                          !.transport = @ \cup {"asset"},
                          !.okUploads = IF success
                                        THEN @ \cup {<<cur.object_path, sha256_bytes(cur.body)>>}
                                        ELSE @,
                          !.okAssets = IF success THEN @ + 1 ELSE @]
            /\ IF success
               THEN /\ remote' = [remote EXCEPT !.assets =
                                    Put(@, cur.object_path, sha256_bytes(cur.body))]
                    /\ attempt' = 0
                    /\ cur' = NoCur
               ELSE /\ attempt' = attempt + 1
                    /\ UNCHANGED <<remote, cur>>
            /\ IF ReachesPersist(success, cfg)
               THEN /\ uploaded_by_original' =
                          LedgerAfter(uploaded_by_original, files[i].name, cur.entry)
                    /\ pc' = "persist"
                    /\ i' = i
               ELSE /\ uploaded_by_original' = uploaded_by_original
                    /\ IF success
                       THEN /\ pc' = PosAfter(i + 1, cfg)
                            /\ i' = i + 1
                       ELSE /\ pc' = IF ExhaustedRetries(attempt + 1, cfg.retries)
                                     THEN AfterUploadError(i, cfg) ELSE "upload"
                            /\ i' = i
    /\ UNCHANGED <<call, files, disk, run, cfg, index, used_names, loop>>

\* line 449, first part: the .tmp file is created and its text is being written
PersistBeginWrite ==
    /\ pc = "persist"
    /\ disk' = write_text_partial(disk, LedgerDoc(uploaded_by_original))
    /\ pc' = "persist_tmp"
    /\ UNCHANGED <<call, files, remote, run, cfg, i, uploaded_by_original, index,
                   used_names, loop, cur, attempt, hist>>

\* line 449, second part: the text is complete
PersistFinishWrite ==
    /\ pc = "persist_tmp"
    /\ disk' = write_text_done(disk, LedgerDoc(uploaded_by_original))
    /\ pc' = "persist_replace"
    /\ UNCHANGED <<call, files, remote, run, cfg, i, uploaded_by_original, index,
                   used_names, loop, cur, attempt, hist>>

\* line 450: tmp.replace(path); the file loop goes on
PersistReplace ==
    /\ pc = "persist_replace"
    /\ disk' = replace(disk)
    /\ hist' = [hist EXCEPT !.writes = @ + 1]
    /\ i' = i + 1
    /\ pc' = PosAfter(i + 1, cfg)
    /\ UNCHANGED <<call, files, remote, run, cfg, uploaded_by_original, index,
                   used_names, loop, cur, attempt>>

\* lines 686-704: one call of storage_upload for the manifest, always with
\* upsert=True; a failure after the last retry propagates out of main()
UploadIndex ==
    /\ pc = "index"
    /\ \E ok \in BOOLEAN :
        LET path == IndexPath(cfg.prefix)
            accepted == RemoteAccepts(remote.index, path, IndexUpsert(cfg))
            success == ok /\ accepted
        IN  /\ hist' = [hist EXCEPT !.transport = @ \cup {"index"},
                                    !.okIndex = IF success THEN @ + 1 ELSE @,
                                    !.indexRefused = @ \/ ~accepted]
            /\ IF success
               THEN /\ remote' = [remote EXCEPT !.index = Put(@, path, index)]
                    /\ attempt' = 0
                    /\ pc' = "done"
               ELSE /\ attempt' = attempt + 1
                    /\ pc' = IF ExhaustedRetries(attempt + 1, cfg.retries)
                             THEN "failed" ELSE "index"
                    /\ UNCHANGED remote
    /\ UNCHANGED <<call, files, disk, run, cfg, i, uploaded_by_original, index,
                   used_names, loop, cur>>

\* the process dies (killed, power loss, interrupt) at any point of a run;
\* the disk and the remote store keep what they hold, the memory is lost
Crash ==
    /\ Running
    /\ pc' = "crashed"
    /\ hist' = [NewHist(hist, NoPrev, FALSE) EXCEPT
                  !.crashedAt = IF pc = "persist" THEN "after_upload" ELSE "other"]
    /\ uploaded_by_original' = EmptyMap
    /\ index' = NewIndex(NoConfig)
    /\ i' = 0
    /\ used_names' = EmptyMap
    /\ loop' = NoLoop
    /\ cur' = NoCur
    /\ attempt' = 0
    /\ UNCHANGED <<call, files, disk, remote, run, cfg>>

Next ==
    \/ StartRun
    \/ ResumeSkip
    \/ PreserveFile
    \/ BeginConvert
    \/ OptimizeAttempt
    \/ UploadAsset
    \/ PersistBeginWrite
    \/ PersistFinishWrite
    \/ PersistReplace
    \/ UploadIndex
    \/ Crash

Spec ==
    Init /\ [][Next]_vars

\* ------------------------------------------------------------------------
\* Helper functions called on their own
\* ------------------------------------------------------------------------

\* the variables of the book loop
pipeline ==
    <<files, disk, remote, run, cfg, pc, i, uploaded_by_original, index,
      used_names, loop, cur, attempt, hist>>

\* the book loop is not running
PipelineIdle ==
    /\ files = <<>>
    /\ disk = [ledger |-> AbsentFile, tmp |-> AbsentFile]
    /\ remote = [assets |-> EmptyMap, index |-> EmptyMap]
    /\ run = 0
    /\ cfg = NoConfig
    /\ pc = "idle"
    /\ i = 0
    /\ uploaded_by_original = EmptyMap
    /\ index = NewIndex(NoConfig)
    /\ used_names = EmptyMap
    /\ loop = NoLoop
    /\ cur = NoCur
    /\ attempt = 0
    /\ hist = [transport |-> {}, okUploads |-> {}, okAssets |-> 0, writes |-> 0,
               okIndex |-> 0, indexRefused |-> FALSE,
               fullAtStart |-> FALSE, crashedAt |-> "none", prev |-> NoPrev,
               error |-> NoError]

\* the largest number of pieces a name argument is put together from
MaxPieces ==
    4

\* a max_len argument below the floor of 16 that the base always keeps
SmallMaxLen ==
    12

\* eight letters: two of them and one more character exceed a base of 16
X8 ==
    [k \in 1..8 |-> "x"]

\* an extension longer than the default max_len
LongExt ==
    <<".">> \o [k \in 1..DefaultMaxLen |-> "y"]

\* what a name argument is made of: safe characters of each kind, characters
\* outside the class, a path separator and a long run
NamePieces ==
    { <<"a">>, <<"B">>, <<" ">>, <<"_">>, <<".">>, <<"-">>, <<"/">>, <<"(">>, X8 }

RECURSIVE Concat(_)
Concat(ps) ==
    IF ps = <<>> THEN <<>> ELSE Head(ps) \o Concat(Tail(ps))

\* every name of at most MaxPieces pieces, and every piece followed by the
\* long extension
NameArgs ==
    { Concat(ps) : ps \in UNION { [1..n -> NamePieces] : n \in 0..MaxPieces } }
    \cup { p \o LongExt : p \in NamePieces }

MaxLenArgs ==
    {SmallMaxLen, DefaultMaxLen}

\* safe_storage_filename(name, max_len=...) is about to run
SanitizerCalls ==
    { [fn |-> "safe_storage_filename", pc |-> "called", name |-> n,
       max_len |-> m, out |-> <<>>, again |-> <<>>] :
         n \in NameArgs, m \in MaxLenArgs }

\* lines 162-190: the call returns
SanitizeReturn ==
    /\ call.fn = "safe_storage_filename"
    /\ call.pc = "called"
    /\ call' = [call EXCEPT !.pc = "returned",
                            !.out = safe_storage_filename(call.name, call.max_len)]
    /\ UNCHANGED pipeline

\* the function is applied to its own result
SanitizeAgain ==
    /\ call.fn = "safe_storage_filename"
    /\ call.pc = "returned"
    /\ call' = [call EXCEPT !.pc = "reapplied",
                            !.again = safe_storage_filename(call.out, call.max_len)]
    /\ UNCHANGED pipeline

\* the largest retries argument
MaxRetriesArg ==
    3

\* storage_upload_with_retries(retries=R) is about to run: attempt = 0, no
\* transport call made yet; log lists the outcome of every call of
\* storage_upload
RetrierCalls ==
    { [fn |-> "storage_upload_with_retries", pc |-> "loop", retries |-> r,
       attempt |-> 0, log |-> <<>>, raised |-> "none"] : r \in 0..MaxRetriesArg }

\* what one call of storage_upload does: it returns, raises RuntimeError for
\* a status >= 400 (lines 404-407), lets a requests.RequestException of
\* session.post through, or lets any other exception through
TransportOutcomes ==
    {"ok", "RuntimeError", "RequestException", "OtherException"}

\* except (requests.RequestException, RuntimeError), line 434
CaughtByRetrier ==
    {"RuntimeError", "RequestException"}

\* lines 421-444: one pass of the while True loop
RetrierAttempt ==
    /\ call.fn = "storage_upload_with_retries"
    /\ call.pc = "loop"
    /\ \E outcome \in TransportOutcomes :
        LET log2 == Append(call.log, outcome)
        IN  call' =
              IF outcome = "ok"
              THEN [call EXCEPT !.pc = "returned", !.log = log2]
              ELSE IF outcome \notin CaughtByRetrier
              THEN [call EXCEPT !.pc = "raised", !.log = log2, !.raised = outcome]
              ELSE IF ExhaustedRetries(call.attempt + 1, call.retries)
              THEN [call EXCEPT !.pc = "raised", !.log = log2,
                                !.attempt = @ + 1, !.raised = outcome]
              ELSE [call EXCEPT !.log = log2, !.attempt = @ + 1]
    /\ UNCHANGED pipeline

\* Image.getbands() of a Pillow mode
getbands(mode) ==
    IF mode = "1" THEN {"1"}
    ELSE IF mode = "L" THEN {"L"}
    ELSE IF mode = "LA" THEN {"L", "A"}
    ELSE IF mode = "P" THEN {"P"}
    ELSE IF mode = "PA" THEN {"P", "A"}
    ELSE IF mode = "RGB" THEN {"R", "G", "B"}
    ELSE IF mode = "RGBA" THEN {"R", "G", "B", "A"}
    ELSE IF mode = "CMYK" THEN {"C", "M", "Y", "K"}
    ELSE {}

\* line 244: ("A" in im.getbands()) or (im.mode in ("LA", "RGBA"))
has_alpha(mode) ==
    "A" \in getbands(mode) \/ mode \in {"LA", "RGBA"}

\* int(math.ceil(a / float(b))) for positive b
CeilDiv(a, b) ==
    (a + b - 1) \div b

\* the stride rounded down
Stride_Floor(n, max_px) ==
    Max(1, n \div max_px)

\* lines 329-330: step = max(1, int(math.ceil(n / float(max_px))))
Stride(n, max_px) ==
    Max(1, CeilDiv(n, max_px))

\* lines 300-378: the streaming fallback on a square page of side file.side;
\* every branch (CMYK, RGB, grayscale) encodes a JPEG of mode RGB
optimize_tiff_streaming(file, max_px, jpeg_quality, outLen) ==
    LET step == Stride(file.side, max_px)
        side == CeilDiv(file.side, step)
    IN  [present |-> TRUE,
         output_bytes |-> [kind |-> "opt", src |-> file.name, px |-> max_px,
                           q |-> jpeg_quality, len |-> outLen],
         output_ext |-> S_jpg, width |-> side, height |-> side, mode |-> "RGB"]

\* the largest side of a source image, in steps of SideStep pixels
MaxSideSteps ==
    2

SideStep ==
    MaxPxArg

SourceModes ==
    {"1", "L", "LA", "P", "PA", "RGB", "RGBA", "CMYK"}

\* optimize_image(path, max_px, jpeg_quality, alpha_mode) is about to run on
\* a file of the given extension whose image has the given mode; decode tells
\* whether Image.open succeeds, raises UnidentifiedImageError or raises
\* something else, deps whether tifffile, zarr and numpy can be imported
OptimizerCalls ==
    { [fn |-> "optimize_image", pc |-> "called",
       file |-> [name |-> <<"p", ".">> \o e, size |-> SmallSize,
                 has_alpha |-> has_alpha(m), side |-> k * SideStep],
       mode |-> m, alpha_mode |-> am, decode |-> d, deps |-> dp,
       out |-> NoOpt, raised |-> "none", fallback |-> FALSE] :
         e \in {S_png, S_tif, S_tiff, S_psd}, m \in SourceModes,
         am \in {"png", "flatten-white-jpeg"},
         d \in {"ok", "UnidentifiedImageError", "OtherException"},
         dp \in BOOLEAN, k \in 1..MaxSideSteps }

\* the fallback for any decode error of a tif or tiff
UsesFallback_AnyError(decode, ext) ==
    decode # "ok" /\ ext \in {S_tif, S_tiff}

\* lines 292-298: except UnidentifiedImageError: if ext not in {"tif",
\* "tiff"}: raise; return optimize_tiff_streaming(...)
UsesFallback(decode, ext) ==
    decode = "UnidentifiedImageError" /\ ext \in {S_tif, S_tiff}

\* lines 233-298: the call returns or raises
OptimizeReturn ==
    /\ call.fn = "optimize_image"
    /\ call.pc = "called"
    /\ LET f == call.file
       IN  call' =
             IF call.decode = "ok"
             THEN [call EXCEPT !.pc = "returned",
                      !.out = optimize_image(f, MaxPxArg, JpegQualityArg,
                                             call.alpha_mode, f.size)]
             ELSE IF UsesFallback(call.decode, PathExt(f.name))
             THEN IF call.deps
                  THEN [call EXCEPT !.pc = "returned_by_fallback", !.fallback = TRUE,
                           !.out = optimize_tiff_streaming(f, MaxPxArg,
                                                           JpegQualityArg, f.size)]
                  ELSE [call EXCEPT !.pc = "raised", !.fallback = TRUE,
                                    !.raised = "RuntimeError"]
             ELSE [call EXCEPT !.pc = "raised", !.raised = call.decode]
    /\ UNCHANGED pipeline

\* the candidate files of resolve_env, in their order
ENV_FILE_CANDIDATES ==
    <<"supabase/.deploy.env", "learnplay.env", ".env", ".env.local",
      ".env.development", ".env.production">>

\* resolve_env(["SUPABASE_URL", "SUPABASE_SERVICE_ROLE_KEY"]) of main()
RequiredEnv ==
    <<"SUPABASE_URL", "SUPABASE_SERVICE_ROLE_KEY">>

\* the number of leading candidate files that can exist
MaxEnvFiles ==
    3

\* v and v.strip(): the value is there and not blank
NonBlank(v) ==
    v # <<>> /\ Strip(v, Whitespace) # <<>>

\* what a key can hold in the environment or in the dict parsed from a file
EnvValueKinds ==
    {"none", "blank", "value"}

\* the value of a kind in source origin (0 for the environment, j for
\* candidate file j): nothing, a blank value, or a padded value that names
\* its origin
EnvValue(kind, origin) ==
    CASE kind = "none" -> <<>>
      [] kind = "blank" -> <<" ">>
      [] OTHER -> <<" ", "v">> \o DecStr(origin) \o <<" ">>

\* a source: whether it exists, and what each required key holds in it
EnvSourceShapes ==
    { [exists |-> x, kinds |-> d] :
         x \in BOOLEAN, d \in [Range(RequiredEnv) -> EnvValueKinds] }

EnvSource(shape, origin) ==
    [exists |-> shape.exists,
     data |-> [k \in Range(RequiredEnv) |->
                  IF shape.exists THEN EnvValue(shape.kinds[k], origin) ELSE <<>>]]

\* a candidate file that does not exist
NoEnvFile ==
    [exists |-> FALSE, data |-> [k \in Range(RequiredEnv) |-> <<>>]]

\* resolve_env(required) is about to run in some environment and directory
ResolverCalls ==
    { [fn |-> "resolve_env", pc |-> "environ",
       environ |-> EnvSource([exists |-> TRUE, kinds |-> e], 0).data,
       envfiles |-> [j \in DOMAIN ENV_FILE_CANDIDATES |->
                        IF j <= MaxEnvFiles THEN EnvSource(f[j], j) ELSE NoEnvFile],
       j |-> 1, resolved |-> EmptyMap, missing |-> <<>>] :
         e \in [Range(RequiredEnv) -> EnvValueKinds],
         f \in [1..MaxEnvFiles -> EnvSourceShapes] }

\* a later source replacing what an earlier one gave
FillFrom_Overriding(resolved, data, required) ==
    LET found == { k \in Range(required) : NonBlank(data[k]) }
    IN  [k \in DOMAIN resolved \cup found |->
            IF k \in found THEN Strip(data[k], Whitespace) ELSE resolved[k]]

\* lines 113-116 and 125-130: every required key that is not resolved yet
\* takes the stripped value of this source when that value is not blank
FillFrom(resolved, data, required) ==
    LET found == { k \in Range(required) : NonBlank(data[k]) }
    IN  [k \in DOMAIN resolved \cup found |->
            IF k \in DOMAIN resolved THEN resolved[k] ELSE Strip(data[k], Whitespace)]

\* lines 112-116: the process environment
ResolveFromEnviron ==
    /\ call.fn = "resolve_env"
    /\ call.pc = "environ"
    /\ call' = [call EXCEPT !.pc = "files",
                            !.resolved = FillFrom(EmptyMap, call.environ, RequiredEnv)]
    /\ UNCHANGED pipeline

\* lines 119-130: one pass of the loop over the candidate files; the loop
\* breaks once every key is resolved, a file that does not exist is skipped
ResolveFromFile ==
    /\ call.fn = "resolve_env"
    /\ call.pc = "files"
    /\ call' =
         IF call.j > Len(ENV_FILE_CANDIDATES)
            \/ \A k \in Range(RequiredEnv) : k \in DOMAIN call.resolved
         THEN [call EXCEPT !.pc = "check"]
         ELSE IF ~call.envfiles[call.j].exists
         THEN [call EXCEPT !.j = @ + 1]
         ELSE [call EXCEPT !.j = @ + 1,
                           !.resolved = FillFrom(call.resolved,
                                                 call.envfiles[call.j].data,
                                                 RequiredEnv)]
    /\ UNCHANGED pipeline

\* lines 132-138: missing keys end the process with sys.exit(1); otherwise
\* the resolved dict is returned to main()
ResolveCheck ==
    /\ call.fn = "resolve_env"
    /\ call.pc = "check"
    /\ LET missing == SelectSeq(RequiredEnv, LAMBDA k : k \notin DOMAIN call.resolved)
       IN  call' = [call EXCEPT !.pc = IF missing # <<>> THEN "exited" ELSE "returned",
                                !.missing = missing]
    /\ UNCHANGED pipeline

\* --max-px and --jpeg-quality as given on the command line: below the
\* floors of the loop, at the floors, and the defaults
MaxPxArgs ==
    {500, 800, 3000}

JpegQualityArgs ==
    {50, 65, 85}

\* lines 579-580: the adaptive loop is about to make its first attempt
AdaptiveCalls ==
    { [fn |-> "adaptive_loop", n |-> 0, cur_px |-> px, cur_q |-> q,
       prev_px |-> px, prev_q |-> q] : px \in MaxPxArgs, q \in JpegQualityArgs }

\* lines 583-596: an attempt with cur_px and cur_q that did not end the loop
\* (oversized output or exception), followed by the shrink for the next one
AdaptiveRetry ==
    /\ call.fn = "adaptive_loop"
    /\ call.n + 1 < LoopAttempts
    /\ call' = [call EXCEPT !.n = @ + 1,
                            !.prev_px = call.cur_px,
                            !.prev_q = call.cur_q,
                            !.cur_px = ShrinkPx(call.cur_px),
                            !.cur_q = ShrinkQ(call.cur_q)]
    /\ UNCHANGED pipeline

\* the largest height, width and max_px of a sampled page
MaxDim ==
    12

\* lines 321-330: the page of optimize_tiff_streaming has been opened
StrideCalls ==
    { [fn |-> "optimize_tiff_streaming", pc |-> "opened", height |-> h,
       width |-> w, max_px |-> m, step_y |-> 0, step_x |-> 0,
       rows |-> 0, cols |-> 0] : h \in 1..MaxDim, w \in 1..MaxDim, m \in 1..MaxDim }

\* lines 329-336: the strides, and the shape of arr[0:height:step_y,
\* 0:width:step_x]
StrideSample ==
    /\ call.fn = "optimize_tiff_streaming"
    /\ call.pc = "opened"
    /\ LET sy == Stride(call.height, call.max_px)
           sx == Stride(call.width, call.max_px)
       IN  call' = [call EXCEPT !.pc = "sampled", !.step_y = sy, !.step_x = sx,
                                !.rows = CeilDiv(call.height, sy),
                                !.cols = CeilDiv(call.width, sx)]
    /\ UNCHANGED pipeline

InitCalls ==
    /\ PipelineIdle
    /\ \/ call \in SanitizerCalls
       \/ call \in RetrierCalls
       \/ call \in OptimizerCalls
       \/ call \in ResolverCalls
       \/ call \in AdaptiveCalls
       \/ call \in StrideCalls

NextCalls ==
    \/ SanitizeReturn
    \/ SanitizeAgain
    \/ RetrierAttempt
    \/ OptimizeReturn
    \/ ResolveFromEnviron
    \/ ResolveFromFile
    \/ ResolveCheck
    \/ AdaptiveRetry
    \/ StrideSample

SpecCalls ==
    InitCalls /\ [][NextCalls]_vars

\* ---------------------------------------------------------------------
\* wifi_zip_transfer.py: the single-file HTTP handler of cmd_send, served by
\* a ThreadingHTTPServer (one thread per request)
\* ---------------------------------------------------------------------

\* the secret path component (args.token or secrets.token_urlsafe(16))
Token ==
    <<"t", "k">>

\* request threads that run at the same time
MaxThreads ==
    2

\* requests the server accepts in one behaviour
MaxRequests ==
    3

\* chunks _iter_file yields for the file
NumChunks ==
    2

\* self.path of the requests
RequestPaths ==
    { <<"/", "t", "k">>, <<"/", "t", "k", "?", "x">>, <<"/", "t", "k", "?">>,
      <<"/", "t", "k", "x">>, <<"/", "t">>, <<"/">>, <<"/", "t", "k", "/">>,
      <<"/", "x", "?", "/", "t", "k">>, <<"/", "?", "t", "k">> }

\* self.path.split("?", 1)[0]
QueryRemoved(path) ==
    IF "?" \in Range(path) THEN SubSeq(path, 1, IndexIn(path, "?") - 1) ELSE path

\* any path that starts with the token path
_is_allowed_Prefix(path, token) ==
    /\ Len(path) >= Len(token) + 1
    /\ SubSeq(path, 1, Len(token) + 1) = <<"/">> \o token

\* Handler._is_allowed
_is_allowed(path, token) ==
    QueryRemoved(path) = <<"/">> \o token

\* shutdown whatever the mode
ShutdownAfter_AnyMode(stop_after_first_download, downloads) ==
    downloads >= 1

\* line 150: if stop_after_first_download and state["downloads"] >= 1
ShutdownAfter(stop_after_first_download, downloads) ==
    stop_after_first_download /\ downloads >= 1

\* what a write to the client socket can do: succeed, raise BrokenPipeError,
\* raise another exception
SendOutcomes ==
    {"ok", "BrokenPipeError", "Exception"}

\* a request thread with no request
IdleThread ==
    [pc |-> "idle", method |-> "none", path |-> <<>>, status |-> 0,
     headers |-> FALSE, sent |-> 0, exc |-> "none", seen |-> 0,
     initiated |-> FALSE]

\* cmd_send: the handler class is made with stop_after_first_download =
\* not args.multi and state = {"downloads": 0}, then serve_forever()
HandlerCalls ==
    { [fn |-> "Handler", stop_after_first_download |-> b, downloads |-> 0,
       shutdowns |-> 0, whole |-> 0, serving |-> TRUE, handled |-> 0,
       threads |-> [t \in 1..MaxThreads |-> IdleThread]] : b \in BOOLEAN }

\* serve_forever hands a request to a new thread
ServeAccept(t) ==
    /\ call.fn = "Handler"
    /\ call.serving
    /\ call.handled < MaxRequests
    /\ call.threads[t].pc \in {"idle", "done"}
    /\ \E method \in {"GET", "HEAD"}, path \in RequestPaths :
          call' = [call EXCEPT !.handled = @ + 1,
                               !.threads[t] = [IdleThread EXCEPT !.pc = "accepted",
                                                                 !.method = method,
                                                                 !.path = path]]
    /\ UNCHANGED pipeline

\* do_HEAD, and do_GET up to the try block
HandlerDispatch(t) ==
    /\ call.fn = "Handler"
    /\ call.threads[t].pc = "accepted"
    /\ call' =
         IF ~_is_allowed(call.threads[t].path, Token)
         THEN [call EXCEPT !.threads[t].status = 404, !.threads[t].pc = "done"]
         ELSE IF call.threads[t].method = "HEAD"
         THEN [call EXCEPT !.threads[t].status = 200, !.threads[t].headers = TRUE,
                           !.threads[t].pc = "done"]
         ELSE [call EXCEPT !.threads[t].pc = "headers"]
    /\ UNCHANGED pipeline

\* line 136: self._send_headers() inside the try block
HandlerSendHeaders(t) ==
    /\ call.fn = "Handler"
    /\ call.threads[t].pc = "headers"
    /\ \E o \in SendOutcomes :
          call' =
            IF o = "ok"
            THEN [call EXCEPT !.threads[t].status = 200, !.threads[t].headers = TRUE,
                              !.threads[t].pc = "body"]
            ELSE [call EXCEPT !.threads[t].exc = o, !.threads[t].pc = "finally"]
    /\ UNCHANGED pipeline

\* lines 137-138: one pass of the loop over the chunks of the file
HandlerWriteChunk(t) ==
    /\ call.fn = "Handler"
    /\ call.threads[t].pc = "body"
    /\ \E o \in SendOutcomes :
          call' =
            IF call.threads[t].sent = NumChunks
            THEN [call EXCEPT !.threads[t].pc = "flush"]
            ELSE IF o = "ok"
            THEN [call EXCEPT !.threads[t].sent = @ + 1]
            ELSE [call EXCEPT !.threads[t].exc = o, !.threads[t].pc = "finally"]
    /\ UNCHANGED pipeline

\* line 139: self.wfile.flush(); without an exception the whole file was sent
HandlerFlush(t) ==
    /\ call.fn = "Handler"
    /\ call.threads[t].pc = "flush"
    /\ \E o \in SendOutcomes :
          call' =
            IF o = "ok"
            THEN [call EXCEPT !.whole = @ + 1, !.threads[t].pc = "finally"]
            ELSE [call EXCEPT !.threads[t].exc = o, !.threads[t].pc = "finally"]
    /\ UNCHANGED pipeline

\* line 148, first half of state["downloads"] += 1: the counter is read
HandlerFinallyLoad(t) ==
    /\ call.fn = "Handler"
    /\ call.threads[t].pc = "finally"
    /\ call' = [call EXCEPT !.threads[t].seen = call.downloads,
                            !.threads[t].pc = "finally_store"]
    /\ UNCHANGED pipeline

\* line 148, second half: the incremented value is stored; the except
\* clauses of lines 140-146 then return
HandlerFinallyStore(t) ==
    /\ call.fn = "Handler"
    /\ call.threads[t].pc = "finally_store"
    /\ call' = [call EXCEPT !.downloads = call.threads[t].seen + 1,
                            !.threads[t].pc =
                               IF call.threads[t].exc # "none" THEN "done" ELSE "after"]
    /\ UNCHANGED pipeline

\* lines 150-152: the shutdown thread is started
HandlerAfter(t) ==
    /\ call.fn = "Handler"
    /\ call.threads[t].pc = "after"
    /\ call' =
         IF ShutdownAfter(call.stop_after_first_download, call.downloads)
         THEN [call EXCEPT !.shutdowns = @ + 1, !.threads[t].initiated = TRUE,
                           !.threads[t].pc = "done"]
         ELSE [call EXCEPT !.threads[t].pc = "done"]
    /\ UNCHANGED pipeline

\* server.shutdown() in its own thread: serve_forever stops accepting
ServerStops ==
    /\ call.fn = "Handler"
    /\ call.serving
    /\ call.shutdowns > 0
    /\ call' = [call EXCEPT !.serving = FALSE]
    /\ UNCHANGED pipeline

InitServer ==
    /\ PipelineIdle
    /\ call \in HandlerCalls

NextServer ==
    \/ \E t \in 1..MaxThreads : ServeAccept(t)
    \/ \E t \in 1..MaxThreads : HandlerDispatch(t)
    \/ \E t \in 1..MaxThreads : HandlerSendHeaders(t)
    \/ \E t \in 1..MaxThreads : HandlerWriteChunk(t)
    \/ \E t \in 1..MaxThreads : HandlerFlush(t)
    \/ \E t \in 1..MaxThreads : HandlerFinallyLoad(t)
    \/ \E t \in 1..MaxThreads : HandlerFinallyStore(t)
    \/ \E t \in 1..MaxThreads : HandlerAfter(t)
    \/ ServerStops

SpecServer ==
    InitServer /\ [][NextServer]_vars

\* ---------------------------------------------------------------------
\* two invocations of main() that work on the same book at the same time,
\* both with resume enabled: they share the ledger file, its .tmp sibling
\* and the store; the manifest upload, which does not touch the ledger, is
\* left out
\* ---------------------------------------------------------------------

\* invocations running at the same time
MaxProcs ==
    2

\* the images of the book: two files that are uploaded as they are
TwoRunFiles ==
    << CHOOSE f \in FilePool : f.name = <<"a","_","b",".","p","n","g">>,
       CHOOSE f \in FilePool : f.name = <<"e",".","s","v","g">> >>

\* the command lines: resume enabled, no retries, a ceiling above both files
TwoRunConfigs ==
    { [NoConfig EXCEPT !.upsert = u, !.prefix = x,
                       !.max_upload_mb = MaxUploadMb + 1] :
         u \in BOOLEAN, x \in Prefixes }

\* lines 561-646 for a file that is not converted: the entry of the file
PreservedEntry(file, c) ==
    LET ext == PathExt(file.name)
        object_name == UniqueName(EmptyMap, CandidateName(file, FALSE, ext))
    IN  MakeEntry(file, object_name, ObjectPath(c.prefix, object_name),
                  read_bytes(file), ext,
                  IF ext = S_svg THEN "image/svg+xml" ELSE mime_for_ext(ext), NoOpt)

\* both invocations are about to start; persisted collects, per invocation,
\* the names whose entry write_json_atomic has put into the ledger file
TwoRunCalls ==
    { [fn |-> "two_runs", disk |-> [ledger |-> AbsentFile, tmp |-> AbsentFile],
       assets |-> EmptyMap, persisted |-> {},
       procs |-> [p \in 1..MaxProcs |->
                     [pc |-> "start", i |-> 0, ubo |-> EmptyMap, cfg |-> cs[p]]]] :
         cs \in [1..MaxProcs -> TwoRunConfigs] }

\* lines 509-518: the ledger is loaded once, when the book is started
RunLoad(p) ==
    /\ call.fn = "two_runs"
    /\ call.procs[p].pc = "start"
    /\ LET load == LoadLedger(call.disk.ledger, resume_enabled(call.procs[p].cfg))
       IN  call' = [call EXCEPT !.procs[p].ubo = load.ubo,
                                !.procs[p].i = 1,
                                !.procs[p].pc = IF load.aborts THEN "failed" ELSE "file"]
    /\ UNCHANGED pipeline

\* lines 537-675: one file: resume-skipped, or uploaded; after a successful
\* upload the in-memory ledger takes the entry, an upload error ends the
\* invocation; after the last file the invocation is done
RunFile(p) ==
    /\ call.fn = "two_runs"
    /\ call.procs[p].pc = "file"
    /\ LET pr == call.procs[p]
       IN  IF pr.i > Len(TwoRunFiles)
           THEN call' = [call EXCEPT !.procs[p].pc = "done"]
           ELSE IF SkipsFile(pr.cfg, pr.ubo, TwoRunFiles[pr.i])
           THEN call' = [call EXCEPT !.procs[p].i = @ + 1]
           ELSE \E ok \in BOOLEAN :
                  LET file == TwoRunFiles[pr.i]
                      entry == PreservedEntry(file, pr.cfg)
                      success == ok /\ RemoteAccepts(call.assets, entry.storagePath,
                                                     pr.cfg.upsert)
                  IN  call' =
                        IF ReachesPersist(success, pr.cfg)
                        THEN [call EXCEPT
                                !.assets = Put(@, entry.storagePath, entry.storedSha256),
                                !.procs[p].ubo = LedgerAfter(pr.ubo, file.name, entry),
                                !.procs[p].pc = "persist"]
                        ELSE [call EXCEPT !.procs[p].pc = "failed"]
    /\ UNCHANGED pipeline

\* line 449, first part: the shared .tmp file is opened and being written
RunPersistBeginWrite(p) ==
    /\ call.fn = "two_runs"
    /\ call.procs[p].pc = "persist"
    /\ call' = [call EXCEPT
                  !.disk = write_text_partial(@, LedgerDoc(call.procs[p].ubo)),
                  !.procs[p].pc = "persist_tmp"]
    /\ UNCHANGED pipeline

\* line 449, second part: the text of this invocation is complete
RunPersistFinishWrite(p) ==
    /\ call.fn = "two_runs"
    /\ call.procs[p].pc = "persist_tmp"
    /\ call' = [call EXCEPT
                  !.disk = write_text_done(@, LedgerDoc(call.procs[p].ubo)),
                  !.procs[p].pc = "persist_replace"]
    /\ UNCHANGED pipeline

\* line 450: tmp.replace(path) moves whatever the .tmp file holds; it raises
\* FileNotFoundError, which ends the invocation, when the other invocation
\* has moved the file away
RunPersistReplace(p) ==
    /\ call.fn = "two_runs"
    /\ call.procs[p].pc = "persist_replace"
    /\ LET pr == call.procs[p]
           name == TwoRunFiles[pr.i].name
           after == replace(call.disk)
       IN  call' =
             IF call.disk.tmp.kind = "absent"
             THEN [call EXCEPT !.procs[p].pc = "failed"]
             ELSE [call EXCEPT
                     !.disk = after,
                     !.persisted = IF /\ after.ledger.kind = "object"
                                      /\ name \in DOMAIN after.ledger.ubo
                                      /\ after.ledger.ubo[name] = pr.ubo[name]
                                   THEN @ \cup {<<p, name>>} ELSE @,
                     !.procs[p].i = @ + 1,
                     !.procs[p].pc = "file"]
    /\ UNCHANGED pipeline

InitTwoRuns ==
    /\ PipelineIdle
    /\ call \in TwoRunCalls

NextTwoRuns ==
    \/ \E p \in 1..MaxProcs : RunLoad(p)
    \/ \E p \in 1..MaxProcs : RunFile(p)
    \/ \E p \in 1..MaxProcs : RunPersistBeginWrite(p)
    \/ \E p \in 1..MaxProcs : RunPersistFinishWrite(p)
    \/ \E p \in 1..MaxProcs : RunPersistReplace(p)

SpecTwoRuns ==
    InitTwoRuns /\ [][NextTwoRuns]_vars

\* ------------------------------------------------------------------------
\* Properties
\* ------------------------------------------------------------------------

CurFile ==
    files[i]

OnFile ==
    i \in DOMAIN files

\* C1: the adaptive loop calls optimize_image at most 8 times, and a file on
\* the conversion path goes on to naming and upload only with a body within
\* the ceiling; otherwise the run fails
C1_LoopBoundedNeverOversize ==
    /\ loop.n <= LoopAttempts
    /\ (pc = "upload" /\ cur.converted) => cur.body.len <= max_bytes(cfg)
    /\ cfg.dry_run =>
         \A k \in DOMAIN index.entries :
            index.entries[k].storedSha256[2].kind = "opt"
               => index.entries[k].storedBytes <= max_bytes(cfg)
    /\ (pc = "failed" /\ loop.n > 0) =>
         /\ loop.n = LoopAttempts
         /\ ~loop.opt.present \/ loop.opt.output_bytes.len > max_bytes(cfg)

\* an attempt produced an oversize output, a later attempt raised, the budget
\* is used up and the run has failed
C1_Witness ==
    /\ pc = "failed"
    /\ loop.n = LoopAttempts
    /\ loop.opt.present
    /\ loop.opt.output_bytes.len > max_bytes(cfg)
    /\ loop.last_err = "error"

LedgerKeys(f) ==
    IF f.kind = "object" THEN DOMAIN f.ubo ELSE {}

\* every valid entry of the ledger file was stored by a successful upload of
\* its bytes to its storagePath
LedgerBacked ==
    \A n \in LedgerKeys(disk.ledger) :
        IsValidEntry(disk.ledger.ubo[n]) =>
            <<disk.ledger.ubo[n].storagePath, disk.ledger.ubo[n].storedSha256>>
                \in hist.okUploads

\* C2: the ledger file holds an entry only after a successful upload of that
\* entry's bytes to its storagePath; a failed upload attempt, a run that fails
\* and a crash leave the ledger file as it was
C2_LedgerOnlyAfterUpload ==
    /\ []LedgerBacked
    /\ [][ (pc' \in {"failed", "crashed"} \/ (pc = "upload" /\ remote' = remote))
             => disk'.ledger = disk.ledger ]_vars

\* a resume-enabled run persisted one file and then failed on an upload after
\* the last retry
C2_Witness ==
    /\ pc = "failed"
    /\ resume_enabled(cfg)
    /\ attempt > cfg.retries
    /\ cur.object_path # <<>>
    /\ \E n \in LedgerKeys(disk.ledger) : IsValidEntry(disk.ledger.ubo[n])

RECURSIVE ReferencePaths(_, _, _, _)
\* originalName and storagePath of every entry of one uninterrupted run over
\* fl under c, in file order
ReferencePaths(fl, c, k, used) ==
    IF k > Len(fl) THEN <<>>
    ELSE LET file == fl[k]
             conv == TakesConversionPath(file, c)
             out_ext == IF conv
                        THEN optimize_image(file, c.max_px, c.jpeg_quality,
                                            c.alpha_mode, 0).output_ext
                        ELSE PathExt(file.name)
             candidate == CandidateName(file, conv, out_ext)
         IN  <<[originalName |-> file.name,
                storagePath |-> ObjectPath(c.prefix, UniqueName(used, candidate))]>>
             \o ReferencePaths(fl, c, k + 1, UsedAfter(used, candidate))

ManifestPaths(ix) ==
    [k \in DOMAIN ix.entries |->
        [originalName |-> ix.entries[k].originalName,
         storagePath |-> ix.entries[k].storagePath]]

\* this run follows, with the same configuration, a run that crashed right
\* after an asset upload succeeded and before the ledger write
ResumedAfterUploadCrash ==
    /\ hist.prev.outcome = "crashed_after_upload"
    /\ hist.prev.cfg = cfg

\* the run failed on an asset upload that the store could only reject: the
\* path is taken and the overwrite flag is off
FailedOnTakenPath ==
    /\ pc = "failed"
    /\ cur.object_path # <<>>
    /\ attempt > cfg.retries
    /\ ~cfg.upsert
    /\ cur.object_path \in DOMAIN remote.assets

\* C3: after a crash between an upload and its ledger write, the next run with
\* the same configuration does not fail on the file it reprocesses and ends
\* with the entries and srcMap of an uninterrupted run
C3_CrashResumeConverges ==
    ResumedAfterUploadCrash =>
        /\ ~FailedOnTakenPath
        /\ pc = "done" =>
             /\ ManifestPaths(index) = ReferencePaths(files, cfg, 1, EmptyMap)
             /\ \A k \in DOMAIN index.entries :
                   index.srcMap[index.entries[k].originalName]
                      = index.entries[k].storagePath

\* C4: no two entries of a book manifest share a storedName
C4_StoredNamesUnique ==
    \A a, b \in DOMAIN index.entries :
        a # b => index.entries[a].storedName # index.entries[b].storedName

\* C5 as claimed: a run over a book whose ledger holds a valid entry for every
\* file never invokes the upload transport
C5_NoTransportCallAtAll ==
    (hist.fullAtStart /\ pc = "done") => hist.transport = {}

\* C5 as amended: such a run uploads no asset; the transport is invoked for
\* the manifest index only; and when the run before it completed with the same
\* configuration, the manifest equals that run's manifest
C5_ResumeAllUploadsOnlyIndex ==
    hist.fullAtStart =>
        /\ "asset" \notin hist.transport
        /\ hist.okAssets = 0
        /\ pc = "done" =>
             /\ hist.transport = {"index"}
             /\ Len(index.entries) = Len(files)
             /\ (hist.prev.outcome = "done" /\ hist.prev.cfg = cfg)
                   => index = hist.prev.manifest

\* a completed run over a fully recorded book that follows a completed run
\* with the same configuration
C5_Witness ==
    /\ hist.fullAtStart
    /\ pc = "done"
    /\ hist.prev.outcome = "done"
    /\ hist.prev.cfg = cfg
    /\ Len(files) = MaxFiles

\* C6: a dry run never calls storage_upload, and when it completes the
\* manifest has one entry and one srcMap key per input file
C6_DryRunNoRemoteWrite ==
    cfg.dry_run =>
        /\ hist.transport = {}
        /\ pc = "done" =>
             /\ Len(index.entries) = Len(files)
             /\ Cardinality(DOMAIN index.srcMap) = Len(files)

\* a dry run over a book of more than one file has completed
C6_Witness ==
    /\ cfg.dry_run
    /\ pc = "done"
    /\ Len(files) > 1
    /\ Len(index.entries) = Len(files)

DamagedKinds ==
    {"absent", "unparsable", "nonobject", "object_badmap"}

\* C7: whatever the state file holds at book start, loading it never aborts
\* the run, and a damaged file gives an empty ledger
C7_LedgerLoadNeverAborts ==
    /\ ~(pc = "failed" /\ i = 0)
    /\ (pc = "file" /\ i = 1 /\ disk.ledger.kind \in DamagedKinds)
          => uploaded_by_original = EmptyMap

\* C8: the key set of the ledger file never loses a key; the file changes
\* only by the replace step of a resume-enabled run, once per successful asset
\* upload
C8_LedgerGrowsOneWritePerUpload ==
    /\ [][ LedgerKeys(disk.ledger) \subseteq LedgerKeys(disk'.ledger) ]_vars
    /\ [][ disk'.ledger # disk.ledger =>
             /\ pc = "persist_replace"
             /\ resume_enabled(cfg)
             /\ hist'.writes = hist.writes + 1
             /\ hist'.writes = hist.okAssets ]_vars
    /\ [][ hist'.writes # hist.writes =>
             (pc = "persist_replace" \/ hist'.writes = 0) ]_vars
    /\ [](hist.writes <= hist.okAssets)
    /\ []((pc \in {"file", "index", "done", "failed"} /\ i > 0)
             => hist.writes = IF resume_enabled(cfg) THEN hist.okAssets ELSE 0)

\* the ledger file holds two keys, the second written in this run
C8_Witness ==
    /\ Cardinality(LedgerKeys(disk.ledger)) >= 2
    /\ hist.writes >= 1

\* C9: the file at the final ledger path is never a partially written
\* document; whenever it changes it becomes the complete new document
C9_LedgerNeverPartial ==
    /\ [](disk.ledger.kind # "partial")
    /\ [][ disk'.ledger # disk.ledger =>
             disk'.ledger = LedgerDoc(uploaded_by_original) ]_vars

\* the process crashed while the .tmp sibling was half written and a ledger
\* file existed
C9_Witness ==
    /\ pc = "crashed"
    /\ disk.tmp.kind = "partial"
    /\ disk.ledger.kind = "object"

\* C10: a vector file is never passed to optimize_image and is uploaded as
\* read from disk
C10_SvgNeverOptimized ==
    (OnFile /\ PathExt(CurFile.name) = S_svg) =>
        /\ loop.n = 0
        /\ pc = "upload" => cur.body = read_bytes(CurFile)

\* the extension is in the must-convert set or outside the preserve set
MustConvert(file) ==
    \/ PathExt(file.name) \in CONVERT_FROM_EXTS
    \/ PathExt(file.name) \notin SUPPORTED_PRESERVE_EXTS

\* C11: a file whose extension is in the must-convert set or outside the
\* preserve set goes from the policy step to the optimizer, reaches the upload
\* only with the optimizer's output, and its raw bytes are never stored
C11_MustConvertAlwaysOptimized ==
    /\ []((OnFile /\ MustConvert(CurFile) /\ pc = "upload") =>
            /\ cur.converted
            /\ cur.body.kind = "opt"
            /\ cur.body # read_bytes(CurFile))
    /\ [](\A k \in DOMAIN files : \A u \in hist.okUploads :
            MustConvert(files[k]) => u[2] # sha256_bytes(read_bytes(files[k])))
    /\ [][ (pc = "file" /\ OnFile /\ MustConvert(CurFile)
               /\ ~SkipsFile(cfg, uploaded_by_original, CurFile))
             => pc' \in {"convert", "crashed"} ]_vars

\* a file under the ceiling whose extension is in neither set is about to be
\* uploaded converted, without --convert-all
C11_Witness ==
    /\ OnFile
    /\ pc = "upload"
    /\ PathExt(CurFile.name) \notin (CONVERT_FROM_EXTS \cup SUPPORTED_PRESERVE_EXTS)
    /\ CurFile.size <= max_bytes(cfg)
    /\ ~cfg.convert_all
    /\ cur.converted

\* C12: every entry of the manifest of a run has storedBytes within the
\* ceiling of that run
C12_StoredBytesWithinCeiling ==
    \A k \in DOMAIN index.entries :
        index.entries[k].storedBytes <= max_bytes(cfg)

\* C13: the entry being uploaded carries the digest and the length of the
\* buffer handed to the transport; a retry hands over the same buffer; what
\* the store takes is what the entry's digest names
C13_DigestOfUploadedBytes ==
    /\ [](pc = "upload" =>
            /\ cur.entry.storedSha256 = sha256_bytes(cur.body)
            /\ cur.entry.storedBytes = cur.body.len
            /\ cur.entry.storagePath = cur.object_path
            /\ index.entries[Len(index.entries)] = cur.entry)
    /\ [][ (pc = "upload" /\ pc' = "upload") => cur' = cur ]_vars
    /\ [][ (pc = "upload" /\ remote'.assets # remote.assets) =>
             /\ cur.object_path \in DOMAIN remote'.assets
             /\ remote'.assets[cur.object_path] = cur.entry.storedSha256 ]_vars

\* the upload of a converted file is being retried
C13_Witness ==
    /\ pc = "upload"
    /\ attempt > 0
    /\ cur.converted

\* C15: once the retries of an asset upload are used up, or the adaptive loop
\* ended without an output within the ceiling, the run has failed; the failing
\* step writes neither the ledger nor the store; the failed file has no entry
\* in the ledger; the index was not uploaded; a failed run takes no further
\* step
C15_FailFast ==
    /\ [](attempt > cfg.retries => pc = "failed")
    /\ []((pc = "failed" /\ OnFile) =>
            /\ "index" \notin hist.transport
            /\ hist.okIndex = 0
            /\ resume_enabled(cfg) =>
                 ~(/\ CurFile.name \in LedgerKeys(disk.ledger)
                   /\ IsValidEntry(disk.ledger.ubo[CurFile.name])))
    /\ [][ (pc # "failed" /\ pc' = "failed") =>
             /\ disk' = disk
             /\ remote' = remote
             /\ uploaded_by_original' = uploaded_by_original ]_vars
    /\ [][ (pc = "convert" /\ loop.n + 1 = LoopAttempts /\ pc' # "crashed"
               /\ loop'.opt.output_bytes.len > max_bytes(cfg))
             => pc' = "failed" ]_vars
    /\ [][ pc = "failed" => run' = run + 1 ]_vars

\* the second file of a book failed: its upload used up the retries after the
\* first file was uploaded
C15_Witness ==
    /\ pc = "failed"
    /\ i = 2
    /\ attempt > cfg.retries
    /\ hist.okAssets = 1

\* C16: a run that is not a dry run and processed every file uploads the index
\* once, after the last file, and the store never refuses it because the
\* object exists; the stored index is the manifest of the run, with one entry
\* per file of the list, in order
C16_IndexUploadedOnceWithOverwrite ==
    /\ []((pc = "done" /\ ~cfg.dry_run) =>
            /\ hist.okIndex = 1
            /\ remote.index[IndexPath(cfg.prefix)] = index
            /\ Len(index.entries) = Len(files)
            /\ \A k \in DOMAIN files :
                  index.entries[k].originalName = files[k].name)
    /\ [](hist.okIndex = 1 => pc = "done")
    /\ [](hist.okIndex <= 1)
    /\ [](~hist.indexRefused)
    /\ [][ hist'.transport # hist.transport /\ "index" \in hist'.transport
             /\ "index" \notin hist.transport
             => (pc = "index" /\ i = Len(files) + 1) ]_vars

\* a run without --upsert replaced the index that the run before it stored
C16_Witness ==
    /\ pc = "done"
    /\ ~cfg.dry_run
    /\ ~cfg.upsert
    /\ hist.prev.outcome = "done"
    /\ ~hist.prev.cfg.dry_run
    /\ Len(files) = MaxFiles
    /\ hist.okIndex = 1

RetrierOn ==
    call.fn = "storage_upload_with_retries"

\* C14: storage_upload_with_retries calls the transport at most retries + 1
\* times; it returns right after the first successful call; a RuntimeError
\* (status >= 400) and a RequestException are counted alike; when retries + 1
\* calls failed it raises the failure of the last call; after it returned or
\* raised it makes no further call
C14_RetrierBounded ==
    /\ [](RetrierOn =>
            /\ Len(call.log) <= call.retries + 1
            /\ call.pc = "loop" =>
                 /\ call.attempt = Len(call.log)
                 /\ \A k \in DOMAIN call.log : call.log[k] \in CaughtByRetrier
            /\ call.pc = "returned" =>
                 /\ call.log[Len(call.log)] = "ok"
                 /\ \A k \in 1..(Len(call.log) - 1) : call.log[k] \in CaughtByRetrier
            /\ (call.pc = "raised" /\ call.raised \in CaughtByRetrier) =>
                 /\ Len(call.log) = call.retries + 1
                 /\ call.raised = call.log[Len(call.log)]
                 /\ \A k \in DOMAIN call.log : call.log[k] \in CaughtByRetrier)
    /\ [][ (RetrierOn /\ call.pc \in {"returned", "raised"}) => call' = call ]_vars

\* the retrier gave up after failures of both kinds with the largest bound
C14_Witness ==
    /\ RetrierOn
    /\ call.pc = "raised"
    /\ call.retries = MaxRetriesArg
    /\ Len(call.log) = MaxRetriesArg + 1
    /\ \E a, b \in DOMAIN call.log :
          call.log[a] = "RuntimeError" /\ call.log[b] = "RequestException"

SanitizerReturned ==
    call.fn = "safe_storage_filename" /\ call.pc # "called"

\* C17: the result of safe_storage_filename consists only of characters of
\* [A-Za-z0-9._-], the extension included
C17_SanitizedOnlySafeChars ==
    SanitizerReturned => Range(call.out) \subseteq SafeChars

\* C18: safe_storage_filename applied to its own result returns that result
C18_SanitizerIdempotent ==
    (call.fn = "safe_storage_filename" /\ call.pc = "reapplied")
        => call.again = call.out

\* C19: the result of safe_storage_filename is at most max_len long, and it
\* differs from the sanitized name without a cap only when that name is
\* longer than max_len
C19_SanitizedLengthBounded ==
    SanitizerReturned =>
        LET uncapped == safe_storage_filename(call.name, Len(call.name) + Len(S_file))
        IN  /\ Len(call.out) <= call.max_len
            /\ call.out # uncapped => Len(uncapped) > call.max_len

\* C20: optimize_image returns jpg or png: jpg for a source without alpha,
\* jpg of mode RGB for a source with alpha under the flatten policy, png of
\* mode RGBA for a source with alpha under the preserve policy; the streaming
\* fallback returns jpg of mode RGB
C20_OptimizerFormatTable ==
    call.fn = "optimize_image" =>
        /\ call.pc = "returned" =>
             /\ call.out.output_ext \in {S_jpg, S_png}
             /\ ~has_alpha(call.mode) => call.out.output_ext = S_jpg
             /\ (has_alpha(call.mode) /\ call.alpha_mode = "flatten-white-jpeg") =>
                   (call.out.output_ext = S_jpg /\ call.out.mode = "RGB")
             /\ (has_alpha(call.mode) /\ call.alpha_mode = "png") =>
                   (call.out.output_ext = S_png /\ call.out.mode = "RGBA")
        /\ call.pc = "returned_by_fallback" =>
             (call.out.output_ext = S_jpg /\ call.out.mode = "RGB")

\* a palette image with alpha was flattened to a JPEG
C20_Witness ==
    /\ call.fn = "optimize_image"
    /\ call.pc = "returned"
    /\ call.mode = "PA"
    /\ call.alpha_mode = "flatten-white-jpeg"
    /\ call.out.output_ext = S_jpg

\* the sources that give key k a value that is not blank: 0 for the process
\* environment, j for candidate file j
DefiningSources(k) ==
    (IF NonBlank(call.environ[k]) THEN {0} ELSE {})
    \cup { j \in DOMAIN ENV_FILE_CANDIDATES :
             call.envfiles[j].exists /\ NonBlank(call.envfiles[j].data[k]) }

FirstSource(k) ==
    CHOOSE j \in DefiningSources(k) : \A m \in DefiningSources(k) : j <= m

\* C21: resolve_env gives every required key the stripped value of its first
\* defining source, the environment before every file and the files in
\* candidate order, each key by itself; when a key has no defining source the
\* process exits naming the missing keys, and nothing of the book loop has
\* happened
C21_EnvFirstMatchWinsPerKey ==
    (call.fn = "resolve_env" /\ call.pc \in {"returned", "exited"}) =>
        /\ \A k \in Range(RequiredEnv) :
              IF DefiningSources(k) = {}
              THEN k \notin DOMAIN call.resolved
              ELSE /\ k \in DOMAIN call.resolved
                   /\ call.resolved[k] =
                        Strip(IF FirstSource(k) = 0 THEN call.environ[k]
                              ELSE call.envfiles[FirstSource(k)].data[k], Whitespace)
        /\ call.pc = "exited" <=> \E k \in Range(RequiredEnv) : DefiningSources(k) = {}
        /\ call.pc = "exited" =>
              /\ call.missing = SelectSeq(RequiredEnv, LAMBDA k : DefiningSources(k) = {})
              /\ PipelineIdle

\* one key came from the environment, the other from the second file although
\* the third file defines both
C21_Witness ==
    /\ call.fn = "resolve_env"
    /\ call.pc = "returned"
    /\ FirstSource(RequiredEnv[1]) = 0
    /\ FirstSource(RequiredEnv[2]) = 2
    /\ \A k \in Range(RequiredEnv) : 3 \in DefiningSources(k)

\* C22: file headers and file bytes go only to a request whose path without
\* its query string is exactly "/" + token; every step of a thread that
\* handles a GET or HEAD with any other path leaves the download counter and
\* the started shutdowns as they are, sends nothing of the file, and the
\* request ends with status 404
C22_OnlyTokenPathServed ==
    [][call.fn = "Handler" =>
         \A t \in 1..MaxThreads :
            LET th == call'.threads[t]
            IN  /\ (th.headers \/ th.sent > 0 \/ th.status = 200) =>
                      QueryRemoved(th.path) = <<"/">> \o Token
                /\ (call.threads[t] # th /\ QueryRemoved(th.path) # <<"/">> \o Token) =>
                      /\ call'.downloads = call.downloads
                      /\ call'.shutdowns = call.shutdowns
                      /\ ~th.headers /\ th.sent = 0 /\ ~th.initiated
                      /\ th.pc = "done" => th.status = 404]_vars

\* a GET for the token path with a suffix was refused with 404 in one-time
\* mode while nothing had been downloaded
C22_Witness ==
    /\ call.fn = "Handler"
    /\ call.stop_after_first_download
    /\ call.downloads = 0 /\ call.shutdowns = 0
    /\ \E t \in 1..MaxThreads :
          /\ call.threads[t].pc = "done"
          /\ call.threads[t].method = "GET"
          /\ call.threads[t].path = <<"/", "t", "k", "x">>
          /\ call.threads[t].status = 404

\* C23: in one-time mode every GET that sent the whole file without an
\* exception starts the shutdown thread when it ends, so a shutdown is
\* started as soon as the first such GET has ended and never without one; a
\* GET that ended with BrokenPipeError or another exception starts none; in
\* multi mode no shutdown is ever started
C23_ShutdownAfterWholeDownload ==
    call.fn = "Handler" =>
        /\ \A t \in 1..MaxThreads :
              LET th == call.threads[t]
              IN  /\ (th.pc = "done" /\ th.method = "GET" /\ th.exc = "none"
                         /\ th.sent = NumChunks /\ call.stop_after_first_download)
                        => th.initiated
                  /\ th.exc # "none" => ~th.initiated
                  /\ th.initiated => (th.sent = NumChunks /\ th.exc = "none")
        /\ call.shutdowns <= call.whole
        /\ call.shutdowns > 0 => call.stop_after_first_download
        /\ ~call.serving => call.shutdowns > 0

\* one-time mode: a first GET was aborted after part of the file and started
\* no shutdown, a later GET sent the whole file and started it
C23_Witness ==
    /\ call.fn = "Handler"
    /\ call.stop_after_first_download
    /\ call.shutdowns = 1
    /\ \E t, u \in 1..MaxThreads :
          /\ call.threads[t].pc = "done" /\ call.threads[t].exc = "BrokenPipeError"
          /\ call.threads[t].sent = 1 /\ ~call.threads[t].initiated
          /\ call.threads[u].pc = "done" /\ call.threads[u].initiated

\* C24: every retry of the adaptive loop runs the optimizer with a pixel
\* bound and a JPEG quality no larger than those of the attempt before it,
\* whatever --max-px and --jpeg-quality were given
C24_RetryNeverLarger ==
    (call.fn = "adaptive_loop" /\ call.n >= 1) =>
        /\ call.cur_px <= call.prev_px
        /\ call.cur_q <= call.prev_q

\* C25: an attempt of the adaptive loop that is not the last one, whether it
\* raised or produced an oversized output, is followed by the next attempt
\* with the shrunk parameters; a file fails in the loop only when all eight
\* attempts were made, with "Failed to convert image" exactly when no
\* attempt produced an output and with "still too large" when the last
\* output produced exceeds the ceiling
C25_FailsOnlyAfterEightAttempts ==
    /\ [](hist.error # NoError =>
             /\ pc = "failed"
             /\ loop.n = LoopAttempts
             /\ (hist.error.text = "Failed to convert image") = ~loop.opt.present
             /\ hist.error.text = "BLOCKED: Optimized image is still too large" =>
                   /\ loop.opt.present
                   /\ loop.opt.output_bytes.len > max_bytes(cfg))
    /\ [][(pc = "convert" /\ loop.n < LoopAttempts) =>
             /\ (pc' = "failed" /\ hist'.crashedAt = "none") => loop.n + 1 = LoopAttempts
             /\ (pc' = "convert" /\ loop'.n = loop.n + 1) =>
                   /\ loop'.cur_px = ShrinkPx(loop.cur_px)
                   /\ loop'.cur_q = ShrinkQ(loop.cur_q)]_vars

\* an oversized output was followed by an exception, and after eight attempts
\* the file failed as still too large
C25_Witness ==
    /\ pc = "failed"
    /\ loop.n = LoopAttempts
    /\ loop.last_err = "error"
    /\ loop.opt.present
    /\ hist.error.text = "BLOCKED: Optimized image is still too large"

\* C26: optimize_image runs the streaming fallback only when the decode
\* raised UnidentifiedImageError and the extension is tif or tiff; for any
\* other extension and any other decode error the call raises that error and
\* the fallback was not run
C26_FallbackOnlyForUnidentifiedTiff ==
    (call.fn = "optimize_image" /\ call.pc # "called") =>
        LET tiff == PathExt(call.file.name) \in {S_tif, S_tiff}
        IN  /\ call.fallback = (call.decode = "UnidentifiedImageError" /\ tiff)
            /\ call.pc = "returned_by_fallback" => call.fallback
            /\ (call.decode # "ok" /\ ~(call.decode = "UnidentifiedImageError" /\ tiff)) =>
                  /\ call.pc = "raised"
                  /\ call.raised = call.decode
                  /\ call.out = NoOpt

\* a tiff raised another error than UnidentifiedImageError: it was re-raised
\* although the packages of the fallback were there
C26_Witness ==
    /\ call.fn = "optimize_image"
    /\ call.pc = "raised"
    /\ PathExt(call.file.name) = S_tiff
    /\ call.decode = "OtherException"
    /\ call.deps
    /\ ~call.fallback

\* C27: a file that failed because the packages of the streaming fallback
\* are missing surfaces an error that differs from the error of every
\* generic conversion failure
C27_MissingCapabilityDistinguishable ==
    (pc = "failed" /\ hist.error # NoError /\ loop.last_err = "StreamingUnavailable") =>
        hist.error \notin { SurfacedError("failed_to_convert", e) :
                              e \in {"error", "UnsupportedTiffShape"} }

\* C28: the strides of optimize_tiff_streaming are at least 1 and the sampled
\* page has at most max_px rows and at most max_px columns
C28_SampledWithinMaxPx ==
    (call.fn = "optimize_tiff_streaming" /\ call.pc = "sampled") =>
        /\ call.step_y >= 1 /\ call.step_x >= 1
        /\ call.rows * call.step_y >= call.height
        /\ call.cols * call.step_x >= call.width
        /\ call.rows <= call.max_px
        /\ call.cols <= call.max_px

\* a page higher than max_px and not a multiple of it, narrower than max_px
C28_Witness ==
    /\ call.fn = "optimize_tiff_streaming"
    /\ call.pc = "sampled"
    /\ call.height = 11 /\ call.max_px = 4 /\ call.width = 3
    /\ call.step_y = 3 /\ call.rows = 4
    /\ call.step_x = 1 /\ call.cols = 3

\* C29: the manifest being built always has a srcMap whose keys are the
\* originalName values of its entries, no originalName in two entries, and
\* srcMap[e.originalName] = e.storagePath for every entry e, whether the
\* entry was made in this run or taken from the ledger
C29_SrcMapAgreesWithEntries ==
    /\ DOMAIN index.srcMap =
          { index.entries[k].originalName : k \in DOMAIN index.entries }
    /\ \A j, k \in DOMAIN index.entries :
          index.entries[j].originalName = index.entries[k].originalName => j = k
    /\ \A k \in DOMAIN index.entries :
          index.srcMap[index.entries[k].originalName] = index.entries[k].storagePath

\* the first file was resume-skipped, the second one, whose stored name
\* differs from its original name, was processed in this run
C29_Witness ==
    /\ pc = "upload"
    /\ i = 2
    /\ Len(index.entries) = 2
    /\ SkipsFile(cfg, uploaded_by_original, files[1])
    /\ index.entries[1] = uploaded_by_original[files[1].name]
    /\ index.entries[2] = cur.entry
    /\ cur.entry.storedName # cur.entry.originalName

\* C30: every entry of a manifest that a run uploaded has the storagePath
\* <prefix>/<bookSlug>/images/<storedName> with the prefix of that run
C30_ManifestPathsUnderRunPrefix ==
    (pc = "done" /\ hist.okIndex = 1) =>
        \A k \in DOMAIN index.entries :
           index.entries[k].storagePath =
              ObjectPath(cfg.prefix, index.entries[k].storedName)

\* C32: a run that is a dry-run or has --no-resume starts with an empty
\* in-memory ledger whatever the ledger file holds and keeps it empty; every
\* entry it adds to the manifest comes from processing the file (the name
\* registry changes with it), none from a resume-skip; and no step of such a
\* run, whether it completes, fails or is terminated, changes the ledger
\* file or its .tmp sibling
C32_NoResumeLeavesLedgerAlone ==
    /\ []((run > 0 /\ ~resume_enabled(cfg)) => uploaded_by_original = EmptyMap)
    /\ [][~resume_enabled(cfg') => disk' = disk]_vars
    /\ [][(~resume_enabled(cfg) /\ run' = run
              /\ Len(index'.entries) > Len(index.entries))
            => used_names' # used_names]_vars

\* a run with --no-resume uploaded a file again that the ledger file lists
\* with a valid entry, and completed
C32_Witness ==
    /\ pc = "done"
    /\ cfg.no_resume
    /\ hist.okAssets = Len(files)
    /\ Len(files) > 0
    /\ \A k \in DOMAIN files :
          /\ files[k].name \in LedgerKeys(disk.ledger)
          /\ IsValidEntry(disk.ledger.ubo[files[k].name])

\* C31: when two invocations that worked on the same book at the same time
\* have both finished, the ledger file lists every file whose entry either
\* of them had persisted after a successful upload
C31_NoLostLedgerEntry ==
    (/\ call.fn = "two_runs"
     /\ \A p \in 1..MaxProcs : call.procs[p].pc \in {"done", "failed"}) =>
        \A e \in call.persisted :
           /\ e[2] \in LedgerKeys(call.disk.ledger)
           /\ IsValidEntry(call.disk.ledger.ubo[e[2]])

====
